---------------------------- MODULE Spec2Model ----------------------------
(***************************************************************************)
(* Reward functions of sinergym/utils/rewards.py (LinearReward family,     *)
(* NuestroReward, NuestroRewardMultizona, NuestroRewardMultizonaPPO,       *)
(* MultiZoneReward): construction-time validation and the per-step         *)
(* evaluation __call__(obs_dict) -> (reward, reward_terms).                *)
(*                                                                         *)
(* Python floats are modelled as exact decimal numbers m * 10^(-e) whose   *)
(* mantissa is an arbitrary-precision integer (sign and magnitude, limbs   *)
(* of four decimal digits), so that no product of the reward arithmetic    *)
(* is cut to the width of a machine integer.                               *)
(***************************************************************************)
EXTENDS Integers, Sequences, FiniteSets, TLC

(***************************************************************************)
(* Exact decimal arithmetic (the model of Python's float +, -, *, /, max). *)
(***************************************************************************)
Base == 100 * 100

\* Python evaluates an operand once, before the operation: v is evaluated
\* once and F applied to its value
Bind(v, F(_)) == CHOOSE r \in {F(x) : x \in {v}} : TRUE

Bind2(v, w, F(_, _)) == CHOOSE r \in {F(x, y) : x \in {v}, y \in {w}} : TRUE

Bind3(u, v, w, F(_, _, _)) ==
    CHOOSE r \in {F(x, y, z) : x \in {u}, y \in {v}, z \in {w}} : TRUE

\* lowest limb and the limbs above it, of a magnitude that may have none
Limb(s) == IF s = <<>> THEN 0 ELSE Head(s)

Rest(s) == IF s = <<>> THEN <<>> ELSE Tail(s)

RECURSIVE Norm(_)
\* strip high-order zero limbs: the canonical magnitude has none
Norm(s) ==
    Bind(s, LAMBDA x :
        IF x = <<>> THEN <<>>
        ELSE IF x[Len(x)] = 0 THEN Norm(SubSeq(x, 1, Len(x) - 1))
        ELSE x)

RECURSIVE MagFromNat(_)
MagFromNat(n) ==
    IF n = 0 THEN <<>> ELSE <<n % Base>> \o MagFromNat(n \div Base)

RECURSIVE MagAddC(_, _, _)
MagAddC(a, b, c) ==
    Bind3(a, b, c, LAMBDA x, y, k :
        IF x = <<>> /\ y = <<>>
        THEN (IF k = 0 THEN <<>> ELSE <<k>>)
        ELSE Bind(Limb(x) + Limb(y) + k, LAMBDA s :
                 <<s % Base>> \o MagAddC(Rest(x), Rest(y), s \div Base)))

MagAdd(a, b) == MagAddC(a, b, 0)

RECURSIVE MagSubB(_, _, _)
\* a - b - borrow, for a >= b
MagSubB(a, b, br) ==
    Bind3(a, b, br, LAMBDA x, y, k :
        IF x = <<>> THEN <<>>
        ELSE Bind(Head(x) - Limb(y) - k, LAMBDA d :
                 IF d < 0
                 THEN <<d + Base>> \o MagSubB(Tail(x), Rest(y), 1)
                 ELSE <<d>> \o MagSubB(Tail(x), Rest(y), 0)))

MagSub(a, b) == Norm(MagSubB(a, b, 0))

RECURSIVE MagCmpFrom(_, _, _)
\* compare two magnitudes of equal length from limb i downwards: -1, 0, 1
MagCmpFrom(a, b, i) ==
    Bind(i, LAMBDA k :
        IF k = 0 THEN 0
        ELSE IF a[k] < b[k] THEN -1
        ELSE IF a[k] > b[k] THEN 1
        ELSE MagCmpFrom(a, b, k - 1))

MagCmp(a, b) ==
    Bind2(a, b, LAMBDA x, y :
        IF Len(x) < Len(y) THEN -1
        ELSE IF Len(x) > Len(y) THEN 1
        ELSE MagCmpFrom(x, y, Len(x)))

RECURSIVE MagMulSmall(_, _, _)
\* a * k + c for one limb k
MagMulSmall(a, k, c) ==
    Bind3(a, k, c, LAMBDA x, y, z :
        IF x = <<>>
        THEN (IF z = 0 THEN <<>> ELSE <<z>>)
        ELSE Bind(Head(x) * y + z, LAMBDA p :
                 <<p % Base>> \o MagMulSmall(Tail(x), y, p \div Base)))

RECURSIVE MagMul(_, _)
MagMul(a, b) ==
    Bind2(a, b, LAMBDA x, y :
        IF x = <<>> \/ y = <<>> THEN <<>>
        ELSE IF Tail(y) = <<>> THEN MagMulSmall(x, Head(y), 0)
        ELSE MagAdd(MagMulSmall(x, Head(y), 0), <<0>> \o MagMul(x, Tail(y))))

\* signed integers: [neg, mag], zero is never negative
BigZero == [neg |-> FALSE, mag |-> <<>>]

BigFromInt(n) ==
    IF n < 0 THEN [neg |-> TRUE, mag |-> MagFromNat(-n)]
    ELSE [neg |-> FALSE, mag |-> MagFromNat(n)]

BigNeg(a) ==
    Bind(a, LAMBDA x :
        IF x.mag = <<>> THEN x ELSE [neg |-> ~x.neg, mag |-> x.mag])

BigAdd(a, b) ==
    Bind2(a, b, LAMBDA x, y :
        IF x.neg = y.neg
        THEN [neg |-> x.neg, mag |-> MagAdd(x.mag, y.mag)]
        ELSE Bind(MagCmp(x.mag, y.mag), LAMBDA c :
                 IF c = 0 THEN BigZero
                 ELSE IF c > 0
                 THEN [neg |-> x.neg, mag |-> MagSub(x.mag, y.mag)]
                 ELSE [neg |-> y.neg, mag |-> MagSub(y.mag, x.mag)]))

BigMul(a, b) ==
    Bind2(a, b, LAMBDA x, y :
        Bind(MagMul(x.mag, y.mag), LAMBDA m :
            IF m = <<>> THEN BigZero
            ELSE [neg |-> (x.neg # y.neg), mag |-> m]))

RECURSIVE Pow10(_)
Pow10(k) == IF k = 0 THEN 1 ELSE 10 * Pow10(k - 1)

\* a * 10^k: k \div 4 whole limbs, then the rest of the power in one limb
BigShift(a, k) ==
    Bind2(a, k, LAMBDA x, n :
        IF n = 0 \/ x.mag = <<>> THEN x
        ELSE [neg |-> x.neg,
              mag |-> [i \in 1..(n \div 4) |-> 0] \o
                      MagMulSmall(x.mag, Pow10(n % 4), 0)])

\* decimal numbers: [m, e] is m * 10^(-e)
D(n, e) == [m |-> BigFromInt(n), e |-> e]

DInt(n) == D(n, 0)

DZero == DInt(0)

DAdd(a, b) ==
    Bind2(a, b, LAMBDA x, y :
        IF x.e >= y.e
        THEN [m |-> BigAdd(x.m, BigShift(y.m, x.e - y.e)), e |-> x.e]
        ELSE [m |-> BigAdd(BigShift(x.m, y.e - x.e), y.m), e |-> y.e])

DNeg(a) == Bind(a, LAMBDA x : [m |-> BigNeg(x.m), e |-> x.e])

DSub(a, b) == DAdd(a, DNeg(b))

DMul(a, b) ==
    Bind2(a, b, LAMBDA x, y : [m |-> BigMul(x.m, y.m), e |-> x.e + y.e])

\* sign of a - b: -1, 0, 1
DCmp(a, b) ==
    Bind(DSub(a, b), LAMBDA d :
        IF d.m.mag = <<>> THEN 0 ELSE IF d.m.neg THEN -1 ELSE 1)

DEq(a, b) == DCmp(a, b) = 0

DLe(a, b) == DCmp(a, b) <= 0

DLt(a, b) == DCmp(a, b) < 0

\* Python's max(a, b): the first argument unless the second is greater
DMax(a, b) == Bind2(a, b, LAMBDA x, y : IF DLt(x, y) THEN y ELSE x)

RECURSIVE DSumStartingAtOne(_)
\* a sum that starts from 1 (NoZonesEnergyAlone tells it from DSum)
DSumStartingAtOne(s) ==
    Bind(s, LAMBDA x :
        IF x = <<>> THEN DInt(1)
        ELSE DAdd(DSumStartingAtOne(SubSeq(x, 1, Len(x) - 1)), x[Len(x)]))

RECURSIVE DSum(_)
\* Python's sum(list): 0 + x1 + x2 + ...
DSum(s) ==
    Bind(s, LAMBDA x :
        IF x = <<>> THEN DZero
        ELSE DAdd(DSum(SubSeq(x, 1, Len(x) - 1)), x[Len(x)]))

(***************************************************************************)
(* Python values used as variable names: a str, or something else.         *)
(***************************************************************************)
Str(s) == <<"str", s>>

NotStr(s) == <<"int", s>>

\* isinstance(v, str)
IsStr(v) == v[1] = "str"

\* all(isinstance(v, str) for v in names)
AllStr(names) == \A i \in 1..Len(names) : IsStr(names[i])

(***************************************************************************)
(* datetime(YEAR, month, day, hour).weekday() and pd.Timestamp validity.   *)
(***************************************************************************)
IsLeap(y) == (y % 4 = 0) /\ ((y % 100 # 0) \/ (y % 400 = 0))

DaysInMonth(y, m) ==
    IF m = 2 THEN (IF IsLeap(y) THEN 29 ELSE 28)
    ELSE IF m \in {4, 6, 9, 11} THEN 30 ELSE 31

RECURSIVE DaysBeforeMonth(_, _)
DaysBeforeMonth(y, m) ==
    IF m = 1 THEN 0 ELSE DaysBeforeMonth(y, m - 1) + DaysInMonth(y, m - 1)

DaysBeforeYear(y) ==
    LET p == y - 1 IN p * 365 + (p \div 4) - (p \div 100) + (p \div 400)

\* date.weekday(): Monday is 0, Sunday is 6
Weekday(y, m, d) == (DaysBeforeYear(y) + DaysBeforeMonth(y, m) + d + 6) % 7

\* the date is one that datetime / pd.Timestamp accept (else ValueError)
ValidDate(y, m, d) == m \in 1..12 /\ d >= 1 /\ d <= DaysInMonth(y, m)

\* max(lo, min(hi, int(x)))
Clamp(lo, hi, x) ==
    LET mn == IF hi < x THEN hi ELSE x IN IF lo > mn THEN lo ELSE mn

(***************************************************************************)
(* Thermal comfort: the PMV regression and the violation of each variant.  *)
(***************************************************************************)
\* a regression that leaves out the tdb*rh term (PmvFormulaExact tells it
\* from PmvRegression)
PmvWithoutInteraction(tdb, rh) ==
    DSub(DAdd(D(-74928, 4), DMul(D(2882, 4), tdb)), DMul(D(20, 4), rh))

\* pmv = -7.4928 + 0.2882*tdb - 0.0020*rh + 0.0004*tdb*rh
PmvRegression(tdb, rh) ==
    DAdd(DSub(DAdd(D(-74928, 4), DMul(D(2882, 4), tdb)),
              DMul(D(20, 4), rh)),
         DMul(DMul(D(4, 4), tdb), rh))

\* the policy the docstring of _calculate_pmv_violation describes, the hot
\* side counted only when total_energy > 0 (BilateralUnconditional tells it
\* from BilateralViolation)
EnergyGatedViolation(pmv, total_energy) ==
    Bind(pmv, LAMBDA p :
        Bind(DAdd(DMax(DSub(D(-5, 1), p), DZero),
                  IF DLt(DZero, total_energy)
                  THEN DMax(DSub(p, D(5, 1)), DZero) ELSE DZero),
             LAMBDA d : DAdd(d, DMul(d, d))))

\* a violation without the quadratic term (ScenarioFigures tells it from
\* BilateralViolation)
LinearViolation(pmv, total_energy) ==
    Bind(pmv, LAMBDA p :
        DAdd(DMax(DSub(D(-5, 1), p), DZero), DMax(DSub(p, D(5, 1)), DZero)))

\* NuestroRewardMultizona._calculate_pmv_violation, from the PMV on:
\* d = max(-0.5 - pmv, 0.0) + max(pmv - 0.5, 0.0); violation = d + d * d
\* (total_energy is a parameter the body never reads)
BilateralViolation(pmv, total_energy) ==
    Bind(pmv, LAMBDA p :
        Bind(DAdd(DMax(DSub(D(-5, 1), p), DZero),
                  DMax(DSub(p, D(5, 1)), DZero)),
             LAMBDA d : DAdd(d, DMul(d, d))))

\* NuestroRewardMultizona._calculate_pmv_violation(tdb, rh, total_energy)
CalculatePmvViolation(tdb, rh, total_energy) ==
    Bind(PmvRegression(tdb, rh), LAMBDA pmv :
        [pmv |-> pmv, violation |-> BilateralViolation(pmv, total_energy)])

\* NuestroRewardMultizonaPPO._calculate_pmv_violation(tdb, rh)
CalculatePmvViolationPPO(tdb, rh) ==
    Bind(DAdd(DSub(DAdd(D(-74928, 4), DMul(D(2882, 4), tdb)),
                   DMul(D(20, 4), rh)),
              DMul(DMul(D(4, 4), tdb), rh)),
         LAMBDA pmv :
        Bind(DAdd(DMax(DSub(D(-5, 1), pmv), DZero),
                  DMax(DSub(pmv, D(5, 1)), DZero)),
             LAMBDA d : [pmv |-> pmv, violation |-> DAdd(d, DMul(d, d))]))

\* scripts/eval_baseline_onoff.py: pmv_simple(tdb, rh)
pmv_simple(tdb, rh) ==
    DAdd(DSub(DAdd(D(-74928, 4), DMul(D(2882, 4), tdb)),
              DMul(D(20, 4), rh)),
         DMul(DMul(D(4, 4), tdb), rh))

\* scripts/eval_baseline_onoff.py: calc_violation(tdb, rh)
calc_violation(tdb, rh) ==
    Bind(pmv_simple(tdb, rh), LAMBDA pmv :
        Bind(DAdd(DMax(DSub(D(-5, 1), pmv), DZero),
                  DMax(DSub(pmv, D(5, 1)), DZero)),
             LAMBDA d : [pmv |-> pmv, violation |-> DAdd(d, DMul(d, d))]))

\* NuestroReward._get_temperature_violation, the PMV of its two readings
PmvNuestroReward(tdb, rh) ==
    DAdd(DSub(DAdd(D(-74928, 4), DMul(D(2882, 4), tdb)),
              DMul(D(20, 4), rh)),
         DMul(DMul(D(4, 4), tdb), rh))

\* violacion = max(-0,5 - (pmv), 0, pmv - 0,5): Python reads the commas as
\* argument separators, max(-0, 5 - pmv, 0, pmv - 0, 5)
ViolacionNuestroReward(pmv) ==
    Bind(pmv, LAMBDA p :
        DMax(DMax(DMax(DMax(DInt(0), DSub(DInt(5), p)), DInt(0)),
                  DSub(p, DInt(0))),
             DInt(5)))

(***************************************************************************)
(* Tariff: the weekday table of the JSON file and the price of a step.     *)
(***************************************************************************)
dias_map == [lunes |-> 0, martes |-> 1, miercoles |-> 2, jueves |-> 3,
             viernes |-> 4, sabado |-> 5, domingo |-> 6]

InList(x, list) == \E i \in 1..Len(list) : list[i] = x

\* weekday in self.dias_punta and self.punta_inicio <= hour <= self.punta_fin
IsPeak(self, weekday, hour) ==
    /\ InList(weekday, self.dias_punta)
    /\ self.punta_inicio <= hour
    /\ hour <= self.punta_fin

\* a selection whose window leaves out its last hour (TariffSelection tells
\* it from PriceKwh)
PriceKwhBeforeEnd(self, weekday, hour) ==
    IF /\ InList(weekday, self.dias_punta)
       /\ self.punta_inicio <= hour
       /\ hour < self.punta_fin
    THEN self.precio_punta
    ELSE self.precio_fuera_punta

\* NuestroRewardMultizona.__call__: price_kwh
PriceKwh(self, weekday, hour) ==
    IF IsPeak(self, weekday, hour)
    THEN self.precio_punta
    ELSE self.precio_fuera_punta

\* NuestroReward.__call__: weekday < 5 and (hour >= 17 and hour <= 21)
PriceKwhNuestroReward(self, weekday, hour) ==
    IF weekday < 5 /\ (hour >= 17 /\ hour <= 21)
    THEN self.high_price
    ELSE self.low_price

(***************************************************************************)
(* Construction.  An optional value is <<>> (None, or an attribute not yet *)
(* assigned) or <<v>>.  A constructor returns the exception it raised, or  *)
(* "none" and the object.                                                  *)
(***************************************************************************)
Unset == <<>>

Some(v) == <<v>>

LinearClasses == {"LinearReward", "EnergyCostLinearReward", "ExpReward",
                  "HourlyLinearReward", "NormalizedLinearReward"}

NuestroClasses == {"NuestroReward", "NuestroRewardMultizona",
                   "NuestroRewardMultizonaPPO"}

Classes == LinearClasses \cup NuestroClasses \cup {"MultiZoneReward"}

\* the attributes an object of any of the classes may carry
NewObject(cls) ==
    [cls |-> cls, temp_names |-> <<>>, hum_names |-> <<>>, energy_names |-> <<>>,
     W_energy |-> DZero, lambda_energy |-> DZero, lambda_temp |-> DZero,
     precio_punta |-> DZero, precio_fuera_punta |-> DZero,
     punta_inicio |-> 0, punta_fin |-> 0, dias_punta |-> <<>>,
     high_price |-> DZero, low_price |-> DZero, schedule |-> Unset,
     total_energy |-> Unset, energy_penalty |-> Unset,
     total_temp_violation |-> Unset, comfort_penalty |-> Unset]

Raised(exc) == [raised |-> exc]

Built(obj) == [raised |-> "none", obj |-> obj]

\* not (0 <= energy_weight <= 1)
WeightOutOfRange(energy_weight) ==
    ~(DLe(DZero, energy_weight) /\ DLe(energy_weight, DInt(1)))

\* LinearReward.__init__; EnergyCostLinearReward, ExpReward, HourlyLinearReward
\* and NormalizedLinearReward.__init__ start with super().__init__(...)
InitLinearReward(a) ==
    IF WeightOutOfRange(a.energy_weight) THEN Raised("ValueError")
    ELSE IF ~AllStr(a.temperature_variables \o a.energy_variables)
    THEN Raised("TypeError")
    ELSE Built([NewObject(a.cls) EXCEPT
                  !.temp_names = a.temperature_variables,
                  !.energy_names = a.energy_variables,
                  !.W_energy = a.energy_weight,
                  !.lambda_energy = a.lambda_energy,
                  !.lambda_temp = a.lambda_temperature])

\* NuestroReward.__init__
InitNuestroReward(a) ==
    IF WeightOutOfRange(a.energy_weight) THEN Raised("ValueError")
    ELSE IF ~AllStr(a.temperature_variables \o a.energy_variables)
    THEN Raised("TypeError")
    ELSE Built([NewObject(a.cls) EXCEPT
                  !.temp_names = a.temperature_variables,
                  !.energy_names = a.energy_variables,
                  !.W_energy = a.energy_weight,
                  !.lambda_energy = a.lambda_energy,
                  !.lambda_temp = a.lambda_temperature,
                  !.low_price = a.low_price,
                  !.high_price = a.high_price,
                  !.schedule = a.schedule_csv])

\* the tariff attributes, from tarifa_json or from high_price / low_price
WithTariff(obj, a) ==
    IF a.tarifa_json # <<>>
    THEN LET tarifa == a.tarifa_json[1]
         IN  [obj EXCEPT
                !.precio_punta = tarifa.precios.punta,
                !.precio_fuera_punta = tarifa.precios.fuera_de_punta,
                !.punta_inicio = tarifa.horarios.punta_inicio,
                !.punta_fin = tarifa.horarios.punta_fin,
                !.dias_punta = [i \in 1..Len(tarifa.horarios.dias_punta) |->
                                  dias_map[tarifa.horarios.dias_punta[i]]]]
    ELSE [obj EXCEPT
            !.precio_punta = a.high_price,
            !.precio_fuera_punta = a.low_price,
            !.punta_inicio = 17,
            !.punta_fin = 20,
            !.dias_punta = <<0, 1, 2, 3, 4>>]

\* NuestroRewardMultizona.__init__
InitMultizona(a) ==
    IF WeightOutOfRange(a.energy_weight) THEN Raised("ValueError")
    ELSE IF ~AllStr(a.temperature_variables \o a.energy_variables)
    THEN Raised("TypeError")
    ELSE Built(WithTariff([NewObject(a.cls) EXCEPT
                  !.temp_names = a.temperature_variables,
                  !.hum_names = a.humidity_variables,
                  !.energy_names = a.energy_variables,
                  !.W_energy = a.energy_weight,
                  !.lambda_energy = a.lambda_energy,
                  !.lambda_temp = a.lambda_temperature], a))

\* NuestroRewardMultizonaPPO.__init__
InitMultizonaPPO(a) ==
    IF WeightOutOfRange(a.energy_weight) THEN Raised("ValueError")
    ELSE Built(WithTariff([NewObject(a.cls) EXCEPT
                  !.temp_names = a.temperature_variables,
                  !.hum_names = a.humidity_variables,
                  !.energy_names = a.energy_variables,
                  !.W_energy = a.energy_weight,
                  !.lambda_energy = DMul(a.lambda_energy, D(50, 1)),
                  !.lambda_temp = a.lambda_temperature,
                  !.schedule = a.schedule_csv], a))

\* MultiZoneReward.__init__: the arguments are stored as given
InitMultiZoneReward(a) ==
    Built([NewObject(a.cls) EXCEPT
             !.energy_names = a.energy_variables,
             !.W_energy = a.energy_weight,
             !.lambda_energy = a.lambda_energy,
             !.lambda_temp = a.lambda_temperature])

\* cls(**a)
Instantiate(a) ==
    CASE a.cls \in LinearClasses -> InitLinearReward(a)
      [] a.cls = "NuestroReward" -> InitNuestroReward(a)
      [] a.cls = "NuestroRewardMultizona" -> InitMultizona(a)
      [] a.cls = "NuestroRewardMultizonaPPO" -> InitMultizonaPPO(a)
      [] a.cls = "MultiZoneReward" -> InitMultiZoneReward(a)

(***************************************************************************)
(* Evaluation.  __call__(obs_dict) returns the exception it raised and the *)
(* object as the statements before the raise left it, or "none", the       *)
(* object, the reward and the reward_terms.                                *)
(***************************************************************************)
\* a failed lookup answered with a reward of 0 instead of the exception
\* (MissingKeyRaises tells it from Throws)
ThrowsDefaultedToZero(exc, self) ==
    [raised |-> "none", self |-> self, reward |-> DZero]

Throws(exc, self) == [raised |-> exc, self |-> self]

\* pmv_values and temp_violations are the locals of that name, kept so that
\* the per-zone values can be stated
Returns(self, reward, terms, pmv_values, temp_violations) ==
    [raised |-> "none", self |-> self, reward |-> reward, reward_terms |-> terms,
     pmv_values |-> pmv_values, temp_violations |-> temp_violations]

CalendarKeys == <<Str("month"), Str("day_of_month"), Str("hour")>>

\* every obs_dict[name] of the list finds its key
HasKeys(obs_dict, names) ==
    \A i \in 1..Len(names) : names[i] \in DOMAIN obs_dict

\* [obs_dict[v] for v in names]
Readings(obs_dict, names) == [i \in 1..Len(names) |-> obs_dict[names[i]]]

Min(a, b) == IF a < b THEN a ELSE b

\* x / n for the divisors the code uses: n written as a decimal fraction
DDiv(x, n) ==
    CASE n = 1 -> x
      [] n = 2 -> DMul(x, D(5, 1))
      [] n = 1000 -> DMul(x, D(1, 3))

\* month, day, hour_raw clamped; weekday and hour of datetime(YEAR, ...)
CalendarOf(obs_dict, year) ==
    LET month == Clamp(1, 12, obs_dict[Str("month")])
        day == Clamp(1, 28, obs_dict[Str("day_of_month")])
        hour_raw == Clamp(0, 23, obs_dict[Str("hour")])
    IN  [month |-> month, day |-> day, hour |-> hour_raw,
         weekday |-> Weekday(year, month, day)]

\* a penalty that leaves out the division by 1000 (EnergyBreakdown tells it
\* from EnergyPenalty)
EnergyPenaltyPerWatt(total_energy, price_kwh) ==
    DMul(DNeg(total_energy), price_kwh)

\* -(total_energy / 1000) * price_kwh
EnergyPenalty(total_energy, price_kwh) ==
    DMul(DNeg(DDiv(total_energy, 1000)), price_kwh)

\* a sum whose comfort term leaves out the factor (1 - W_energy)
\* (WeightedCombination tells it from WeightedSum)
WeightedSumUnscaledComfort(self) ==
    Bind2(DMul(DMul(self.lambda_energy, self.W_energy),
               self.energy_penalty[1]),
          DMul(self.lambda_temp, self.comfort_penalty[1]),
          LAMBDA energy_term, comfort_term :
        [energy_term |-> energy_term, comfort_term |-> comfort_term,
         reward |-> DAdd(energy_term, comfort_term)])

\* energy_term, comfort_term and reward of the weighted sum
WeightedSum(self) ==
    Bind2(DMul(DMul(self.lambda_energy, self.W_energy),
               self.energy_penalty[1]),
          DMul(DMul(self.lambda_temp, DSub(DInt(1), self.W_energy)),
               self.comfort_penalty[1]),
          LAMBDA energy_term, comfort_term :
        [energy_term |-> energy_term, comfort_term |-> comfort_term,
         reward |-> DAdd(energy_term, comfort_term)])

\* the zones zip(self.temp_names, self.hum_names) pairs
ZoneCount(self) == Min(Len(self.temp_names), Len(self.hum_names))

\* the keys the loop over the zones reads, in the order it reads them
ZoneKeys(self) ==
    [k \in 1..(2 * ZoneCount(self)) |->
        IF k % 2 = 1 THEN self.temp_names[(k + 1) \div 2]
        ELSE self.hum_names[k \div 2]]

\* NuestroRewardMultizona._get_temperature_violation: one (pmv, violation)
\* per zone
GetTemperatureViolation(self, obs_dict, total_energy) ==
    [i \in 1..ZoneCount(self) |->
        CalculatePmvViolation(obs_dict[self.temp_names[i]],
                              obs_dict[self.hum_names[i]], total_energy)]

\* [z.pmv for z in zones], [z.violation for z in zones]
PmvValues(zones) == [i \in 1..Len(zones) |-> zones[i].pmv]

TempViolations(zones) == [i \in 1..Len(zones) |-> zones[i].violation]

\* sum(pmv_values) / max(len(pmv_values), 1)
AvgPmv(zones) ==
    DDiv(DSum(PmvValues(zones)), IF Len(zones) > 1 THEN Len(zones) ELSE 1)

\* a total that adds to the one the call before left on the object
\* (EvaluationIdempotent tells it from WithComfort)
WithComfortAccumulated(self, total_temp_violation) ==
    Bind(IF self.total_temp_violation = Unset THEN total_temp_violation
         ELSE DAdd(self.total_temp_violation[1], total_temp_violation),
         LAMBDA v :
        [self EXCEPT !.total_temp_violation = Some(v),
                     !.comfort_penalty = Some(DNeg(v))])

\* self.total_temp_violation = sum(temp_violations);
\* self.comfort_penalty = -self.total_temp_violation
WithComfort(self, total_temp_violation) ==
    Bind(total_temp_violation, LAMBDA v :
        [self EXCEPT !.total_temp_violation = Some(v),
                     !.comfort_penalty = Some(DNeg(v))])

\* NuestroRewardMultizona.__call__, from the comfort penalty on
ReturnMultizona(self, zones, price_kwh) ==
    Bind(WeightedSum(self), LAMBDA sum :
        Returns(self, sum.reward,
                [energy_term |-> sum.energy_term,
                 comfort_term |-> sum.comfort_term,
                 energy_penalty |-> self.energy_penalty[1],
                 comfort_penalty |-> self.comfort_penalty[1],
                 total_power_demand |-> self.total_energy[1],
                 total_temperature_violation |-> self.total_temp_violation[1],
                 reward_weight |-> self.W_energy,
                 avg_pmv |-> AvgPmv(zones),
                 price_kwh |-> price_kwh],
                PmvValues(zones), TempViolations(zones)))

\* NuestroRewardMultizona.__call__
CallMultizona(self, obs_dict, year) ==
    IF ~HasKeys(obs_dict, CalendarKeys) THEN Throws("KeyError", self)
    ELSE Bind(CalendarOf(obs_dict, year), LAMBDA cal :
    Bind(PriceKwh(self, cal.weekday, cal.hour), LAMBDA price_kwh :
    IF ~HasKeys(obs_dict, self.energy_names) THEN Throws("KeyError", self)
    ELSE Bind(DSum(Readings(obs_dict, self.energy_names)),
              LAMBDA total_energy :
    Bind([self EXCEPT
            !.total_energy = Some(total_energy),
            !.energy_penalty = Some(EnergyPenalty(total_energy, price_kwh))],
         LAMBDA self1 :
    IF ~HasKeys(obs_dict, ZoneKeys(self)) THEN Throws("KeyError", self1)
    ELSE Bind(GetTemperatureViolation(self1, obs_dict, total_energy),
              LAMBDA zones :
    Bind(WithComfort(self1, DSum(TempViolations(zones))), LAMBDA self2 :
    ReturnMultizona(self2, zones, price_kwh)))))))

(***************************************************************************)
(* Occupancy schedule: the rows of schedule_csv are [date, hour,           *)
(* my_factor], date being <<year, month, day>>.                            *)
(***************************************************************************)
\* pd.Timestamp(year=YEAR, month=int(obs_dict['month']),
\*              day=int(obs_dict['day_of_month'])) raises ValueError
ScheduleDateInvalid(obs_dict, year) ==
    ~ValidDate(year, obs_dict[Str("month")], obs_dict[Str("day_of_month")])

\* the rows with date == current_date and hour == current_hour, in order
ScheduleRows(schedule, obs_dict, year) ==
    SelectSeq(schedule,
              LAMBDA r : /\ r.date = <<year, obs_dict[Str("month")],
                                       obs_dict[Str("day_of_month")]>>
                         /\ r.hour = obs_dict[Str("hour")])

\* if not row.empty: factor = row['my_factor'].values[0];
\* if factor == 0: self.W_energy = 1
ApplySchedule(self, obs_dict, year) ==
    LET row == ScheduleRows(self.schedule[1], obs_dict, year)
    IN  IF row # <<>> /\ row[1].my_factor = 0
        THEN [self EXCEPT !.W_energy = DInt(1)]
        ELSE self

\* the schedule block: the object after it, or the ValueError of the date
AfterSchedule(self, obs_dict, year) ==
    IF self.schedule = Unset THEN Built(self)
    ELSE IF ScheduleDateInvalid(obs_dict, year) THEN Raised("ValueError")
    ELSE Built(ApplySchedule(self, obs_dict, year))

\* NuestroReward.__call__, from the weighted sum on
ReturnNuestroReward(self, pmv, violacion) ==
    Bind(WeightedSum(self), LAMBDA sum :
        Returns(self, sum.reward,
                [energy_term |-> sum.energy_term,
                 comfort_term |-> sum.comfort_term,
                 energy_penalty |-> self.energy_penalty[1],
                 comfort_penalty |-> self.comfort_penalty[1],
                 total_power_demand |-> self.total_energy[1],
                 total_temperature_violation |-> self.total_temp_violation[1],
                 reward_weight |-> self.W_energy],
                <<pmv>>, <<violacion>>))

\* NuestroReward.__call__
CallNuestroReward(self, obs_dict, year) ==
    IF ~HasKeys(obs_dict, CalendarKeys) THEN Throws("KeyError", self)
    ELSE Bind(CalendarOf(obs_dict, year), LAMBDA cal :
    Bind(PriceKwhNuestroReward(self, cal.weekday, cal.hour),
         LAMBDA price_kwh :
    IF ~HasKeys(obs_dict, self.energy_names) THEN Throws("KeyError", self)
    ELSE Bind(DSum(Readings(obs_dict, self.energy_names)),
              LAMBDA total_energy :
    Bind([self EXCEPT
            !.total_energy = Some(total_energy),
            !.energy_penalty = Some(EnergyPenalty(total_energy, price_kwh))],
         LAMBDA self1 :
    \* tdb = obs_dict[self.temp_names[0]]; rh = obs_dict[self.temp_names[1]]
    IF Len(self.temp_names) < 1 THEN Throws("IndexError", self1)
    ELSE IF self.temp_names[1] \notin DOMAIN obs_dict
    THEN Throws("KeyError", self1)
    ELSE IF Len(self.temp_names) < 2 THEN Throws("IndexError", self1)
    ELSE IF self.temp_names[2] \notin DOMAIN obs_dict
    THEN Throws("KeyError", self1)
    ELSE Bind(PmvNuestroReward(obs_dict[self.temp_names[1]],
                               obs_dict[self.temp_names[2]]), LAMBDA pmv :
    Bind(ViolacionNuestroReward(pmv), LAMBDA violacion :
    Bind(WithComfort(self1, DSum(<<violacion>>)), LAMBDA self2 :
    Bind(AfterSchedule(self2, obs_dict, year), LAMBDA after :
    IF after.raised # "none" THEN Throws(after.raised, self2)
    ELSE ReturnNuestroReward(after.obj, pmv, violacion)))))))))

\* NuestroRewardMultizonaPPO._get_temperature_violation
GetTemperatureViolationPPO(self, obs_dict) ==
    [i \in 1..ZoneCount(self) |->
        CalculatePmvViolationPPO(obs_dict[self.temp_names[i]],
                                 obs_dict[self.hum_names[i]])]

\* sum(1 for pmv in pmv_values if -0.5 <= pmv <= 0.5)
ZonesInComfort(zones) ==
    Cardinality({i \in 1..Len(zones) :
                    DLe(D(-5, 1), zones[i].pmv) /\ DLe(zones[i].pmv, D(5, 1))})

\* if is_peak: self.energy_penalty *= 15.0
PeakPenalty(penalty, is_peak) ==
    IF is_peak THEN DMul(penalty, D(150, 1)) ELSE penalty

\* a flat penalty for every step in the peak window, with or without power
\* (FlatPenaltyAndBonus tells it from FlatPeakPenalty)
FlatPeakPenaltyWithoutPower(is_peak, total_energy) ==
    IF is_peak THEN D(-5000, 1) ELSE D(0, 1)

\* flat_peak_penalty = -500.0 if is_peak and self.total_energy > 0 else 0.0
FlatPeakPenalty(is_peak, total_energy) ==
    IF is_peak /\ DLt(DZero, total_energy) THEN D(-5000, 1) ELSE D(0, 1)

\* self.total_energy > 0 and avg_pmv > -0.5
Wasting(total_energy, avg_pmv) ==
    DLt(DZero, total_energy) /\ DLt(D(-5, 1), avg_pmv)

\* waste_factor: 1.0, or 1.0 + 150.0 * excess ** 2 with
\* excess = avg_pmv + 0.5 when energy is being wasted
WasteFactor(wasting, avg_pmv) ==
    IF wasting
    THEN Bind(DAdd(avg_pmv, D(5, 1)), LAMBDA excess :
             DAdd(D(10, 1), DMul(D(1500, 1), DMul(excess, excess))))
    ELSE D(10, 1)

\* comfort_bonus: 40.0 with two zones or more in comfort, 8.0 with one
ComfortBonus(zones_in_comfort) ==
    Bind(zones_in_comfort, LAMBDA n :
        IF n >= 2 THEN D(400, 1) ELSE IF n = 1 THEN D(80, 1) ELSE D(0, 1))

\* NuestroRewardMultizonaPPO.__call__, from the weighted sum on
ReturnMultizonaPPO(self, zones, is_peak, flat_peak_penalty, waste_factor) ==
    Bind2(WeightedSum(self), ComfortBonus(ZonesInComfort(zones)),
          LAMBDA sum, comfort_bonus :
        Returns(self,
                DAdd(DAdd(sum.reward, comfort_bonus), flat_peak_penalty),
                [energy_term |-> sum.energy_term,
                 comfort_term |-> sum.comfort_term,
                 comfort_bonus |-> comfort_bonus,
                 flat_peak_penalty |-> flat_peak_penalty,
                 energy_penalty |-> self.energy_penalty[1],
                 comfort_penalty |-> self.comfort_penalty[1],
                 total_power_demand |-> self.total_energy[1],
                 total_temperature_violation |-> self.total_temp_violation[1],
                 reward_weight |-> self.W_energy,
                 avg_pmv |-> AvgPmv(zones),
                 waste_factor |-> waste_factor,
                 is_peak |-> is_peak],
                PmvValues(zones), TempViolations(zones)))

\* NuestroRewardMultizonaPPO.__call__
CallMultizonaPPO(self, obs_dict, year) ==
    IF ~HasKeys(obs_dict, CalendarKeys) THEN Throws("KeyError", self)
    ELSE Bind(CalendarOf(obs_dict, year), LAMBDA cal :
    Bind(IsPeak(self, cal.weekday, cal.hour), LAMBDA is_peak :
    Bind(IF is_peak THEN self.precio_punta ELSE self.precio_fuera_punta,
         LAMBDA price_kwh :
    IF ~HasKeys(obs_dict, self.energy_names) THEN Throws("KeyError", self)
    ELSE Bind(DSum(Readings(obs_dict, self.energy_names)),
              LAMBDA total_energy :
    Bind2(PeakPenalty(EnergyPenalty(total_energy, price_kwh), is_peak),
          FlatPeakPenalty(is_peak, total_energy),
          LAMBDA penalty, flat_peak_penalty :
    Bind([self EXCEPT !.total_energy = Some(total_energy),
                      !.energy_penalty = Some(penalty)], LAMBDA self1 :
    IF ~HasKeys(obs_dict, ZoneKeys(self)) THEN Throws("KeyError", self1)
    ELSE Bind(GetTemperatureViolationPPO(self1, obs_dict), LAMBDA zones :
    Bind(AvgPmv(zones), LAMBDA avg_pmv :
    Bind(Wasting(total_energy, avg_pmv), LAMBDA wasting :
    Bind(WasteFactor(wasting, avg_pmv), LAMBDA waste_factor :
    \* self.energy_penalty *= waste_factor, when energy is being wasted
    Bind([WithComfort(self1, DSum(TempViolations(zones))) EXCEPT
            !.energy_penalty =
                IF wasting THEN Some(DMul(penalty, waste_factor))
                ELSE Some(penalty)], LAMBDA self2 :
    Bind(AfterSchedule(self2, obs_dict, year), LAMBDA after :
    IF after.raised # "none" THEN Throws(after.raised, self2)
    ELSE ReturnMultizonaPPO(after.obj, zones, is_peak, flat_peak_penalty,
                            waste_factor)))))))))))))

\* reward_fn(obs_dict)
Evaluate(self, obs_dict, year) ==
    CASE self.cls = "NuestroReward" -> CallNuestroReward(self, obs_dict, year)
      [] self.cls = "NuestroRewardMultizona" -> CallMultizona(self, obs_dict, year)
      [] self.cls = "NuestroRewardMultizonaPPO" ->
            CallMultizonaPPO(self, obs_dict, year)

(***************************************************************************)
(* The inputs explored: constructor arguments and observations.            *)
(***************************************************************************)
east_temp == Str("east_temp")

east_rh == Str("east_rh")

west_temp == Str("west_temp")

west_rh == Str("west_rh")

heat_pump_power == Str("heat_pump_power")

aux_power == Str("aux_power")

not_a_name == NotStr("42")

\* the reference years the weekday is computed in (1991 is not a leap year
\* and starts on a Tuesday, 2024 is one and starts on a Monday)
Years == {1991, 2024}

\* energy_weight: -0.1, 0, 0.5, 1, 1.5
Weights == {D(-1, 1), DInt(0), D(5, 1), DInt(1), D(15, 1)}

ValidWeights == {DInt(0), D(5, 1), DInt(1)}

\* (lambda_energy, lambda_temperature)
Lambdas == {<<DInt(1), DInt(1)>>, <<DInt(2), DInt(30)>>}

\* tarifa_json: absent, or the parsed file
TarifaWeekend ==
    [precios |-> [punta |-> D(11493, 3), fuera_de_punta |-> D(4556, 3)],
     horarios |-> [punta_inicio |-> 18, punta_fin |-> 21,
                   dias_punta |-> <<"sabado", "domingo">>]]

TarifaOneHour ==
    [precios |-> [punta |-> DInt(8), fuera_de_punta |-> DInt(2)],
     horarios |-> [punta_inicio |-> 16, punta_fin |-> 16,
                   dias_punta |-> <<"lunes", "martes", "viernes">>]]

Tarifas == {<<>>, <<TarifaWeekend>>, <<TarifaOneHour>>}

\* schedule_csv: absent, or the rows read from the file
ScheduleRowsOfFile ==
    << [date |-> <<2024, 1, 15>>, hour |-> 17, my_factor |-> 0],
       [date |-> <<2024, 1, 20>>, hour |-> 17, my_factor |-> 1],
       [date |-> <<1991, 1, 15>>, hour |-> 20, my_factor |-> 0] >>

Schedules == {<<>>, <<ScheduleRowsOfFile>>}

BaseArgs(cls) ==
    [cls |-> cls, temperature_variables |-> <<east_temp>>,
     humidity_variables |-> <<east_rh>>,
     energy_variables |-> <<heat_pump_power>>, energy_weight |-> D(5, 1),
     lambda_energy |-> DInt(1), lambda_temperature |-> DInt(1),
     tarifa_json |-> <<>>, high_price |-> DInt(10), low_price |-> DInt(4),
     schedule_csv |-> <<>>]

\* the constructor calls explored, each class with the parameters it has
ArgsOf(cls) ==
    CASE cls \in LinearClasses \cup {"MultiZoneReward"} ->
            {[BaseArgs(cls) EXCEPT !.temperature_variables = t,
                                   !.humidity_variables = <<>>,
                                   !.energy_variables = e,
                                   !.energy_weight = w] :
                t \in {<<east_temp>>, <<east_temp, not_a_name>>},
                e \in {<<heat_pump_power>>, <<not_a_name>>},
                w \in Weights}
      [] cls = "NuestroReward" ->
            {[BaseArgs(cls) EXCEPT !.temperature_variables = t,
                                   !.humidity_variables = <<>>,
                                   !.energy_variables = e,
                                   !.energy_weight = w,
                                   !.schedule_csv = s] :
                t \in {<<east_temp>>, <<east_temp, east_rh>>,
                       <<east_temp, not_a_name>>},
                e \in {<<heat_pump_power>>, <<not_a_name>>},
                w \in Weights, s \in Schedules}
      [] cls = "NuestroRewardMultizona" ->
            {[BaseArgs(cls) EXCEPT !.temperature_variables = t,
                                   !.humidity_variables = h,
                                   !.energy_variables = e,
                                   !.energy_weight = w,
                                   !.tarifa_json = j] :
                t \in {<<>>, <<east_temp>>, <<east_temp, west_temp>>,
                       <<east_temp, not_a_name>>},
                h \in {<<>>, <<east_rh>>, <<east_rh, west_rh>>,
                       <<east_rh, not_a_name>>},
                e \in {<<heat_pump_power>>, <<heat_pump_power, aux_power>>,
                       <<not_a_name>>},
                w \in Weights, j \in Tarifas}
      [] cls = "NuestroRewardMultizonaPPO" ->
            {[BaseArgs(cls) EXCEPT !.temperature_variables = t,
                                   !.humidity_variables = h,
                                   !.energy_variables = e,
                                   !.energy_weight = w,
                                   !.schedule_csv = s] :
                t \in {<<east_temp>>, <<east_temp, west_temp>>,
                       <<east_temp, not_a_name>>},
                h \in {<<east_rh>>, <<east_rh, west_rh>>,
                       <<east_rh, not_a_name>>},
                e \in {<<heat_pump_power>>, <<not_a_name>>},
                w \in Weights, s \in Schedules}

\* every constructor call explored
ConstructArgs == UNION {ArgsOf(cls) : cls \in Classes}

\* the zone lists of the multi-zone engines: none, one, two zones, and
\* lists of different lengths
ZoneLists ==
    {<< <<>>, <<>> >>, << <<east_temp>>, <<east_rh>> >>,
     << <<east_temp, west_temp>>, <<east_rh, west_rh>> >>,
     << <<east_temp, west_temp>>, <<east_rh>> >>,
     << <<east_temp>>, <<east_rh, west_rh>> >>}

\* engines with well-formed names, the weights and scalings varied
RewardArgs ==
    {[BaseArgs("NuestroRewardMultizona") EXCEPT
         !.temperature_variables = z[1], !.humidity_variables = z[2],
         !.energy_variables = e, !.energy_weight = w,
         !.lambda_energy = l[1], !.lambda_temperature = l[2]] :
        z \in ZoneLists,
        e \in {<<heat_pump_power>>, <<heat_pump_power, aux_power>>},
        w \in ValidWeights, l \in Lambdas}
    \cup
    {[BaseArgs("NuestroRewardMultizonaPPO") EXCEPT
         !.temperature_variables = z[1], !.humidity_variables = z[2]] :
        z \in ZoneLists \ {<< <<>>, <<>> >>}}
    \cup
    {[BaseArgs("NuestroReward") EXCEPT
         !.temperature_variables = <<east_temp, east_rh>>,
         !.humidity_variables = <<>>]}

\* engines with well-formed names, the tariff and the schedule varied
CalendarArgs ==
    {[BaseArgs("NuestroRewardMultizona") EXCEPT !.tarifa_json = j] :
        j \in Tarifas}
    \cup
    {[BaseArgs("NuestroRewardMultizonaPPO") EXCEPT
         !.tarifa_json = j, !.schedule_csv = s] :
        j \in {<<>>, <<TarifaWeekend>>}, s \in Schedules}
    \cup
    {[BaseArgs("NuestroReward") EXCEPT
         !.temperature_variables = <<east_temp, east_rh>>,
         !.humidity_variables = <<>>, !.schedule_csv = s] :
        s \in Schedules}

\* an observation: the calendar fields and the readings of both zones
Obs(month, day, hour, et, erh, wt, wrh, hp, aux) ==
    (Str("month") :> month) @@ (Str("day_of_month") :> day) @@
    (Str("hour") :> hour) @@
    (east_temp :> et) @@ (east_rh :> erh) @@
    (west_temp :> wt) @@ (west_rh :> wrh) @@
    (heat_pump_power :> hp) @@ (aux_power :> aux)

\* the heat pump's power reading goes up to PowerLevels steps of 500 W
PowerLevels == 1

\* every calendar field in and out of range, the readings fixed
CalendarSweep ==
    {Obs(m, d, h, DInt(25), DInt(50), DInt(30), DInt(50), DInt(500),
         DInt(250)) :
        m \in {0, 1, 13}, d \in {0, 15, 20, 31},
        h \in {-1, 16, 17, 18, 20, 21, 24}}

\* (temperature, humidity) of the east zone, with the PMV they give
EastReadings ==
    {<<DInt(24), DInt(10)>>,            \* -0.5
     <<D(25474375, 6), D(795, 1)>>,     \* 0.5
     <<DInt(25), DInt(50)>>,            \* 0.1122
     <<DInt(28), DInt(46)>>,            \* 1.0
     <<D(19224375, 6), D(795, 1)>>,     \* -1.5
     <<D(27974375, 6), D(795, 1)>>}     \* 1.3

\* the readings varied, at a weekday and at a weekend date
ReadingsSweep ==
    {Obs(1, d, 18, z[1], z[2], DInt(30), DInt(50), DInt(500 * p), DInt(250)) :
        d \in {15, 20}, z \in EastReadings, p \in 0..PowerLevels}

(***************************************************************************)
(* The production environment of scripts/train/prod: PyEnvProduction and   *)
(* HomeAssistantBridge.  Readings are floats, written here as integers; a  *)
(* Python dict is a function, an Optional value is Unset or Some(v).       *)
(***************************************************************************)
\* dict.get(key, default)
Get(dict, key, default) == IF key \in DOMAIN dict THEN dict[key] ELSE default

\* [float(dict.get(name, 0)) for name in names]
Lookup(names, dict) == [i \in 1..Len(names) |-> Get(dict, names[i], 0)]

\* the keys of a dict whose keys, in insertion order, are names
Keys(names) == {names[i] : i \in DOMAIN names}

\* HomeAssistantBridge._get_sensor_value: the float of the state, the first
\* number found in it, or None; response is what requests.get gave or raised
GetSensorValue(response) ==
    IF response.raised # "none" THEN Unset
    ELSE IF response.status_code # 200 THEN Unset
    ELSE IF response.state.text \in {"unknown", "unavailable"} THEN Unset
    ELSE IF response.state.float # Unset THEN response.state.float
    ELSE IF response.state.numbers # <<>>
         THEN Some(response.state.numbers[1])
    ELSE Unset

\* a failed read kept as -1 (FailedReadIsZero tells it from SensorValues)
SensorValuesMinusOne(self, responses) ==
    [var_name \in Keys(self.sensor_entities) |->
        IF GetSensorValue(responses[var_name]) = Unset THEN -1
        ELSE GetSensorValue(responses[var_name])[1]]

\* sensor_values[var_name] = value if value is not None else 0.0, for every
\* entry of sensor_entities
SensorValues(self, responses) ==
    [var_name \in Keys(self.sensor_entities) |->
        IF GetSensorValue(responses[var_name]) = Unset THEN 0
        ELSE GetSensorValue(responses[var_name])[1]]

\* HomeAssistantBridge._get_time_variables, now being datetime.now()
GetTimeVariables(now) ==
    (Str("month") :> now.month) @@ (Str("day_of_month") :> now.day) @@
    (Str("hour") :> now.hour)

\* the observation of HomeAssistantBridge.step, reset and
\* get_observation_from_sensors: time variables, variables, meters, and the
\* forecast vector when forecast_csv is set
BridgeObservation(self, now, responses) ==
    Bind(SensorValues(self, responses), LAMBDA sensor_values :
        Lookup(self.time_variables, GetTimeVariables(now))
        \o Lookup(self.variable_names, sensor_values)
        \o Lookup(self.meter_names, sensor_values)
        \o self.forecast_vec)

\* the time fields PyEnvProduction._build_complete_observation knows
TimeFields(self) ==
    (Str("month") :> self.month) @@ (Str("day_of_month") :> self.day) @@
    (Str("hour") :> self.hour) @@ (Str("minute") :> self.minute) @@
    (Str("year") :> self.year)

\* an observation that leaves the meters out (ObservationLayout tells it
\* from BuildCompleteObservation)
BuildObservationWithoutMeters(self, var_values) ==
    Lookup(self.time_variables, TimeFields(self)) \o var_values

\* PyEnvProduction._build_complete_observation: the time fields, the
\* variables as read, 0.0 for every meter
BuildCompleteObservation(self, var_values) ==
    Lookup(self.time_variables, TimeFields(self))
    \o var_values
    \o [i \in 1..Len(self.meter_names) |-> 0]

\* PyEnvProduction._get_observation_terminal: the line typed, parsed, or
\* the simulated values when it is empty, 'auto', not numbers, or not
\* len(variable_names) numbers
GetObservationTerminal(self, user_input, simulated) ==
    IF user_input.text \in {"", "auto"} THEN simulated
    ELSE IF user_input.values = Unset THEN simulated
    ELSE IF Len(user_input.values[1]) # Len(self.variable_names) THEN simulated
    ELSE user_input.values[1]

\* PyEnvProduction._get_observation_api: every variable looked up in the
\* JSON answer, directly or through field_mapping, 0.0 when absent; the
\* simulated values without an endpoint or when the request raises
GetObservationApi(self, response, simulated) ==
    IF self.api_config.observation_endpoint = Unset THEN simulated
    ELSE IF response.raised # "none" THEN simulated
    ELSE [i \in 1..Len(self.variable_names) |->
            Bind(self.variable_names[i], LAMBDA var_name :
                IF var_name \in DOMAIN response.data
                THEN response.data[var_name]
                ELSE IF var_name \in DOMAIN self.api_config.field_mapping
                THEN Get(response.data,
                         self.api_config.field_mapping[var_name], 0)
                ELSE 0)]

\* PyEnvProduction._get_production_observation; in.simulated is what
\* _get_observation_simulated draws
GetProductionObservation(self, in) ==
    BuildCompleteObservation(self,
        CASE self.data_mode = "api" ->
                GetObservationApi(self, in.response, in.simulated)
          [] self.data_mode \in {"simulated", "mqtt", "database"} ->
                in.simulated
          [] OTHER ->
                GetObservationTerminal(self, in.user_input, in.simulated))

\* every name bound to the element after its own (NamesBoundByPosition
\* tells it from ObsDict)
ObsDictOffByOne(self, obs) ==
    Bind(self.time_variables \o self.variable_names \o self.meter_names,
         LAMBDA names :
        [name \in Keys(names) |->
            obs[((CHOOSE k \in DOMAIN names :
                    /\ names[k] = name
                    /\ \A j \in DOMAIN names : names[j] = name => j <= k)
                 % Len(names)) + 1]])

\* the obs_dict handed to reward_fn: obs_dict[name] = obs[k] for the names
\* of time_variables, variable_names, meter_names in turn (of two entries
\* with one name the later stays)
ObsDict(self, obs) ==
    Bind(self.time_variables \o self.variable_names \o self.meter_names,
         LAMBDA names :
        [name \in Keys(names) |->
            obs[CHOOSE k \in DOMAIN names :
                    /\ names[k] = name
                    /\ \A j \in DOMAIN names : names[j] = name => j <= k]])

\* the simulated clock moved on by 5 minutes, a month having month_days
\* days
Advance(self, month_days) ==
    IF self.minute + 5 < 60 THEN [self EXCEPT !.minute = @ + 5]
    ELSE IF self.hour + 1 < 24 THEN [self EXCEPT !.minute = 0, !.hour = @ + 1]
    ELSE IF self.day + 1 <= month_days
         THEN [self EXCEPT !.minute = 0, !.hour = 0, !.day = @ + 1]
    ELSE IF self.month + 1 <= 12
         THEN [self EXCEPT !.minute = 0, !.hour = 0, !.day = 1,
                           !.month = @ + 1]
    ELSE [self EXCEPT !.minute = 0, !.hour = 0, !.day = 1, !.month = 1,
                      !.year = @ + 1]

\* what reset and step hand back: the exception, or the tuple returned
\* together with obs_dict and the inputs of the call
Failed(self, op, exc, in) ==
    [self |-> self, ret |-> [raised |-> exc, op |-> op, in |-> in]]

Stepped(self, op, obs, obs_dict, reward, terminated, truncated, in) ==
    [self |-> self,
     ret |-> [raised |-> "none", op |-> op, obs |-> obs,
              obs_dict |-> obs_dict, reward |-> reward,
              terminated |-> terminated, truncated |-> truncated,
              in |-> in]]

\* sensor_entities with an automatic entry for every meter that has none
WithMeters(sensor_entities, meter_names) ==
    sensor_entities
    \o SelectSeq(meter_names, LAMBDA m : m \notin Keys(sensor_entities))

\* HomeAssistantBridge(...): None stands for the RuntimeError that
\* _verify_connection raises on a status other than 200 (a connection error
\* only warns)
NewBridge(self, sensor_entities, connect) ==
    IF connect = "500" THEN Unset
    ELSE Some([sensor_entities |-> sensor_entities,
               time_variables |-> self.time_variables,
               variable_names |-> self.variable_names,
               meter_names |-> self.meter_names,
               flag_entity |-> self.ha_config.flag_entity,
               forecast_vec |-> self.ha_config.forecast_vec])

\* PyEnvProduction.__init__: the names, the mode, the counters, the clock
\* and the bridge of the mode; an EnergyPlus bridge that cannot be built
\* turns the mode to 'terminal', a Home Assistant bridge that cannot be
\* built is left for reset to build
InitEnv(cfg, in) ==
    Bind([time_variables |-> cfg.time_variables,
          variable_names |-> cfg.variable_names,
          meter_names |-> cfg.meter_names,
          data_mode |-> cfg.data_mode,
          max_steps_per_episode |-> cfg.max_steps_per_episode,
          api_config |-> cfg.api_config,
          ha_config |-> cfg.ha_config,
          energyplus_bridge |-> Unset,
          homeassistant_bridge |-> Unset,
          obs_size |-> Len(cfg.time_variables) + Len(cfg.variable_names)
                       + Len(cfg.meter_names) + Len(cfg.ha_config.forecast_vec),
          episode_count |-> 0, step_count |-> 0,
          total_steps |-> 0, simulation_time |-> 0,
          year |-> in.now.year, month |-> in.now.month, day |-> in.now.day,
          hour |-> in.now.hour, minute |-> in.now.minute],
         LAMBDA self :
        CASE cfg.data_mode = "energyplus" ->
                IF in.connect = "ok"
                THEN [self EXCEPT
                         !.energyplus_bridge = Some([energyplus_env |-> Unset])]
                ELSE [self EXCEPT !.data_mode = "terminal"]
          [] cfg.data_mode = "homeassistant" ->
                IF ~cfg.ha_config.token THEN self
                ELSE [self EXCEPT !.homeassistant_bridge =
                        NewBridge(self,
                            WithMeters(IF cfg.ha_config.sensor_entities = <<>>
                                       THEN cfg.variable_names
                                       ELSE cfg.ha_config.sensor_entities,
                                       cfg.meter_names),
                            in.connect)]
          [] OTHER -> self)

\* PyEnvProduction.reset with the Home Assistant bridge still missing: the
\* bridge is built when there is a token, the mode turns to 'terminal' when
\* building it raises, and without a token reset() is called on None
ResetReconnect(self, in) ==
    IF ~self.ha_config.token THEN Failed(self, "reset", "AttributeError", in)
    ELSE Bind(NewBridge(self,
                        WithMeters(self.ha_config.sensor_entities,
                                   self.meter_names),
                        in.connect),
              LAMBDA bridge :
        IF bridge = Unset
        THEN Bind([self EXCEPT !.data_mode = "terminal"], LAMBDA self1 :
                Stepped(self1, "reset", GetProductionObservation(self1, in),
                        Unset, 0, FALSE, FALSE, in))
        ELSE Stepped([self EXCEPT !.homeassistant_bridge = bridge], "reset",
                     BridgeObservation(bridge[1], in.now, in.responses),
                     Unset, 0, FALSE, FALSE, in))

\* PyEnvProduction.reset
ResetEnv(self0, in) ==
    Bind([self0 EXCEPT !.episode_count = @ + 1, !.step_count = 0,
                       !.simulation_time = 0,
                       !.hour = in.now.hour,
                       !.minute = in.now.minute],
         LAMBDA self :
        CASE self.data_mode = "energyplus" /\ self.energyplus_bridge # Unset ->
                Stepped([self EXCEPT !.energyplus_bridge =
                            Some([energyplus_env |-> Some("EplusEnv")])],
                        "reset", in.eplus.obs, Unset, 0, FALSE, FALSE, in)
          [] self.data_mode = "homeassistant" ->
                IF self.homeassistant_bridge = Unset
                THEN ResetReconnect(self, in)
                ELSE Stepped(self, "reset",
                             BridgeObservation(self.homeassistant_bridge[1],
                                               in.now, in.responses),
                             Unset, 0, FALSE, FALSE, in)
          [] OTHER ->
                Stepped(self, "reset", GetProductionObservation(self, in),
                        Unset, 0, FALSE, FALSE, in))

\* a bridged step that leaves total_steps alone (CountersFollowCalls tells
\* it from StepBridged)
StepBridgedUncounted(self, op, obs, info, in) ==
    IF in.reward.raised # "none" THEN Failed(self, op, in.reward.raised, in)
    ELSE Stepped(Advance([self EXCEPT !.step_count = @ + 1,
                                      !.simulation_time = @ + 300], 28),
                 op, obs,
                 ObsDict(self, obs), in.reward.reward,
                 Get(info, "terminated", FALSE),
                 Get(info, "truncated", FALSE), in)

\* PyEnvProduction._step_energyplus and _step_homeassistant once the bridge
\* has answered with obs and info: the reward, terminated and truncated as
\* info has them, then the counters and the clock
StepBridged(self, op, obs, info, in) ==
    IF in.reward.raised # "none" THEN Failed(self, op, in.reward.raised, in)
    ELSE Stepped(Advance([self EXCEPT !.step_count = @ + 1,
                                      !.total_steps = @ + 1,
                                      !.simulation_time = @ + 300], 28),
                 op, obs,
                 ObsDict(self, obs), in.reward.reward,
                 Get(info, "terminated", FALSE),
                 Get(info, "truncated", FALSE), in)

\* PyEnvProduction.step: the step of the bridge of the mode, or the plain
\* path: counters and clock first, then the observation, the reward and
\* truncated = step_count >= max_steps_per_episode (288 when not given)
StepEnv(self, in) ==
    CASE self.data_mode = "energyplus" /\ self.energyplus_bridge # Unset ->
            IF self.energyplus_bridge[1].energyplus_env = Unset
            THEN Failed(self, "energyplus", "RuntimeError", in)
            ELSE StepBridged(self, "energyplus", in.eplus.obs,
                             [terminated |-> in.eplus.terminated,
                              truncated |-> in.eplus.truncated], in)
      [] self.data_mode = "homeassistant"
           /\ self.homeassistant_bridge # Unset ->
            StepBridged(self, "homeassistant",
                        BridgeObservation(self.homeassistant_bridge[1],
                                          in.now, in.responses),
                        [timestep |-> self.step_count + 1], in)
      [] OTHER ->
            Bind(Advance([self EXCEPT !.step_count = @ + 1,
                                      !.total_steps = @ + 1,
                                      !.simulation_time = @ + 300], 30),
                 LAMBDA self1 :
            Bind(GetProductionObservation(self1, in), LAMBDA obs :
                IF in.reward.raised # "none"
                THEN Failed(self1, "plain", in.reward.raised, in)
                ELSE Stepped(self1, "plain", obs, ObsDict(self1, obs),
                             in.reward.reward, FALSE,
                             self1.step_count >=
                                 Get(self1.max_steps_per_episode, 1, 288),
                             in)))

(***************************************************************************)
(* The environments built and what their surroundings can answer.          *)
(***************************************************************************)
\* time_variables, variable_names, meter_names: the usual declaration, one
\* with time fields the plain path does not know, one where a meter bears
\* the name of a variable
NameConfigs ==
    {[time_variables |-> <<Str("month"), Str("day_of_month"), Str("hour")>>,
      variable_names |-> <<east_temp>>,
      meter_names |-> <<heat_pump_power>>],
     [time_variables |-> <<Str("hour"), Str("minute"), Str("weekday")>>,
      variable_names |-> <<east_temp, east_rh>>,
      meter_names |-> <<>>],
     [time_variables |-> <<Str("hour")>>,
      variable_names |-> <<east_temp>>,
      meter_names |-> <<east_temp>>]}

\* api_config without and with observation_endpoint
ApiConfigs ==
    {[observation_endpoint |-> e, field_mapping |-> (east_rh :> Str("rh"))] :
        e \in {Unset, Some("http://api/obs")}}

\* api_config.homeassistant: token, sensor_entities, flag_entity,
\* forecast_csv (as the vector get_forecast_vector returns for it)
HaConfigs ==
    {[token |-> TRUE, sensor_entities |-> <<>>, flag_entity |-> FALSE,
      forecast_vec |-> <<>>],
     [token |-> TRUE, sensor_entities |-> <<east_temp>>, flag_entity |-> TRUE,
      forecast_vec |-> <<>>],
     [token |-> TRUE, sensor_entities |-> <<>>, flag_entity |-> FALSE,
      forecast_vec |-> <<7, 7>>],
     [token |-> FALSE, sensor_entities |-> <<>>, flag_entity |-> FALSE,
      forecast_vec |-> <<>>]}

\* steps are counted up to MaxStepCount, episodes up to MaxEpisodeCount
MaxStepCount == 2

MaxEpisodeCount == 1

\* and the steps of all episodes up to MaxTotalSteps
MaxTotalSteps == 2

\* the modes with the api_config and the Home Assistant settings they go
\* with; only the usual declaration is tried with every Home Assistant
\* setting
ModeConfigs(n) ==
    ({"terminal", "simulated", "energyplus"}
        \X {CHOOSE a \in ApiConfigs : a.observation_endpoint = Unset}
        \X {CHOOSE h \in HaConfigs : ~h.token})
    \cup ({"api"} \X ApiConfigs \X {CHOOSE h \in HaConfigs : ~h.token})
    \cup ({"homeassistant"}
            \X {CHOOSE a \in ApiConfigs : a.observation_endpoint = Unset}
            \X {h \in HaConfigs :
                   \/ n.meter_names = <<heat_pump_power>>
                   \/ h.token /\ h.sensor_entities = <<>>
                        /\ h.forecast_vec = <<>>})

\* the constructor calls explored
EnvConfigs ==
    UNION {{[time_variables |-> n.time_variables,
             variable_names |-> n.variable_names,
             meter_names |-> n.meter_names,
             data_mode |-> m[1], max_steps_per_episode |-> s,
             api_config |-> m[2], ha_config |-> m[3]] :
               s \in {Unset, Some(MaxStepCount)}, m \in ModeConfigs(n)} :
           n \in NameConfigs}

\* datetime.now()
Nows ==
    {[year |-> 2024, month |-> 12, day |-> 30, hour |-> 23, minute |-> 55],
     [year |-> 2024, month |-> 1, day |-> 15, hour |-> 17, minute |-> 0]}

\* what the operator types: nothing, the right number of values, one value
\* too many, something that is not a number
UserInputs(self) ==
    {[text |-> "", values |-> Unset], [text |-> "abc", values |-> Unset]}
    \cup {[text |-> "values", values |-> Some([i \in 1..n |-> 30 + i])] :
             n \in {Len(self.variable_names), Len(self.variable_names) + 1}}

\* what the GET of observation_endpoint gives: an exception, or the JSON
ApiResponses ==
    {[raised |-> "Timeout"],
     [raised |-> "none", data |-> (east_temp :> 24) @@ (east_rh :> 40)],
     [raised |-> "none", data |-> (Str("rh") :> 41)]}

\* what _get_observation_simulated draws
Simulated(self) == [1..Len(self.variable_names) -> {21, 23}]

\* what the GET of a sensor's state gives
SensorResponses ==
    {[raised |-> "ConnectionError"], [raised |-> "Timeout"],
     [raised |-> "none", status_code |-> 500],
     [raised |-> "none", status_code |-> 200,
      state |-> [text |-> "unknown", float |-> Unset, numbers |-> <<>>]],
     [raised |-> "none", status_code |-> 200,
      state |-> [text |-> "unavailable", float |-> Unset, numbers |-> <<>>]],
     [raised |-> "none", status_code |-> 200,
      state |-> [text |-> "21", float |-> Some(21), numbers |-> <<21>>]],
     [raised |-> "none", status_code |-> 200,
      state |-> [text |-> "45 %", float |-> Unset, numbers |-> <<45>>]]}

\* what EplusEnv.step and EplusEnv.reset give: an observation of the
\* declared length, terminated, truncated
EplusOutcomes(self) ==
    {[obs |-> [i \in 1..(Len(self.time_variables) + Len(self.variable_names)
                           + Len(self.meter_names)) |-> 10 + i],
      terminated |-> t[1], truncated |-> t[2]] :
        t \in BOOLEAN \X BOOLEAN}

\* what reward_fn(obs_dict) gives
RewardOutcomes ==
    {[raised |-> "none", reward |-> -1], [raised |-> "KeyError"]}

\* surroundings that answer nothing in particular
NoInput(self) ==
    [now |-> CHOOSE now \in Nows : now.month = 1, connect |-> "ok",
     user_input |-> [text |-> "", values |-> Unset],
     response |-> [raised |-> "Timeout"],
     simulated |-> [i \in 1..Len(self.variable_names) |-> 21],
     responses |-> <<>>,
     eplus |-> [obs |-> <<>>, terminated |-> FALSE, truncated |-> FALSE],
     reward |-> [raised |-> "none", reward |-> 0]]

\* the surroundings _get_production_observation looks at
PlainInputs(self, base) ==
    {[base EXCEPT !.user_input = u, !.response = a, !.simulated = s] :
        u \in IF self.data_mode \in {"api", "simulated"}
              THEN {base.user_input} ELSE UserInputs(self),
        a \in IF self.data_mode = "api"
                 /\ self.api_config.observation_endpoint # Unset
              THEN ApiResponses ELSE {base.response},
        s \in Simulated(self)}

\* the surroundings the Home Assistant bridge looks at
BridgeInputs(self, base) ==
    {[base EXCEPT !.responses = r] :
        r \in [Keys(self.variable_names \o self.meter_names
                    \o self.ha_config.sensor_entities) -> SensorResponses]}

\* the surroundings of one call of __init__ ("init"), reset or step, as far
\* as the call looks at them
EnvInputs(self, op) ==
    UNION {
        CASE op = "init" ->
                {[base EXCEPT !.connect = c] :
                    c \in IF self.data_mode \in {"energyplus", "homeassistant"}
                          THEN {"ok", "refused", "500"} ELSE {"ok"}}
          [] self.data_mode = "energyplus" /\ self.energyplus_bridge # Unset ->
                {[base EXCEPT !.eplus = e] : e \in EplusOutcomes(self)}
          [] self.data_mode = "homeassistant"
               /\ self.homeassistant_bridge # Unset ->
                BridgeInputs(self, base)
          [] self.data_mode = "homeassistant" /\ op = "reset" ->
                IF ~self.ha_config.token THEN {base}
                ELSE BridgeInputs(self, base)
                     \cup PlainInputs([self EXCEPT !.data_mode = "terminal"],
                                      [base EXCEPT !.connect = "500"])
          [] OTHER -> PlainInputs(self, base) :
        base \in {[NoInput(self) EXCEPT !.now = n, !.reward = w] :
                     n \in IF op = "step"
                           THEN {NoInput(self).now} ELSE Nows,
                     w \in IF op = "step"
                           THEN RewardOutcomes ELSE {NoInput(self).reward}}}

(***************************************************************************)
(* The actuators' side of HomeAssistantBridge: from the action of the      *)
(* model to the values posted.                                             *)
(***************************************************************************)
\* np.min(action), np.max(action)
ActionMin(action) ==
    CHOOSE a \in {action[i] : i \in DOMAIN action} :
        \A j \in DOMAIN action : DLe(a, action[j])

ActionMax(action) ==
    CHOOSE a \in {action[i] : i \in DOMAIN action} :
        \A j \in DOMAIN action : DLe(action[j], a)

\* np.clip(x, low, high), element by element
Clip(x, low, high) ==
    [i \in DOMAIN x |->
        IF DLt(x[i], low[i]) THEN low[i]
        ELSE IF DLt(high[i], x[i]) THEN high[i]
        ELSE x[i]]

\* action_min >= -1.1 and action_max <= 1.1
InNormalizedRange(action) ==
    DLe(D(-11, 1), ActionMin(action)) /\ DLe(ActionMax(action), D(11, 1))

\* HomeAssistantBridge.desnormalize_action and
\* EnergyPlusBridge.desnormalize_action, which are the same text: the first
\* test holds whenever the second does
DesnormalizeAction(self, action) ==
    Clip(IF InNormalizedRange(action)
         THEN [i \in DOMAIN action |->
                 DAdd(DMul(DMul(DAdd(action[i], DInt(1)), D(5, 1)),
                           DSub(self.action_space_high[i],
                                self.action_space_low[i])),
                      self.action_space_low[i])]
         ELSE IF DLe(D(-1, 1), ActionMin(action))
                 /\ DLe(ActionMax(action), D(11, 1))
         THEN [i \in DOMAIN action |->
                 DAdd(DMul(action[i],
                           DSub(self.action_space_high[i],
                                self.action_space_low[i])),
                      self.action_space_low[i])]
         ELSE action,
         self.action_space_low, self.action_space_high)

\* write_actuators: action_real
WriteActuatorsReal(self, action, normalized) ==
    IF normalized THEN DesnormalizeAction(self, action)
    ELSE Clip(action, self.action_space_low, self.action_space_high)

\* step without flag_entity: action_real
StepActionReal(self, action) ==
    IF InNormalizedRange(action) THEN DesnormalizeAction(self, action)
    ELSE action

\* the action space of the bridges built: a setpoint and a fraction
ActionSpaceLow == <<DInt(15), DZero>>

ActionSpaceHigh == <<DInt(30), DInt(1)>>

\* the actions tried: normalized in [0, 1], normalized in [-1, 1], in real
\* units, out of range
Actions ==
    {<<DZero, DInt(1)>>, <<D(5, 1), D(5, 1)>>, <<DInt(-1), DInt(1)>>,
     <<D(-5, 1), DZero>>, <<DInt(20), D(5, 1)>>, <<DInt(40), DInt(-1)>>}

\* what the GET of the flag gives: status 200, another status, an exception
FlagResponses == {"200", "500", "Timeout"}

\* HomeAssistantBridge(...) as far as the flag protocol, the forecast and
\* the actuators go; steps and steps_since_reset are the caller's count
\* of the steps that returned
NewHomeAssistantBridge(flag_entity, forecast_csv) ==
    [flag_entity |-> flag_entity, forecast_csv |-> forecast_csv,
     action_space_low |-> ActionSpaceLow,
     action_space_high |-> ActionSpaceHigh,
     op |-> "init", pc |-> "idle", current_timestep |-> 0,
     success |-> TRUE, before |-> 0, obs |-> Unset, raised |-> FALSE,
     action |-> <<>>, sent |-> <<>>, forecast |-> Unset,
     info_timestep |-> Unset, poll |-> "none",
     steps |-> 0, steps_since_reset |-> 0]

(***************************************************************************)
(* State: the reference year, the last constructor call and whether it     *)
(* raised, the object it built, the last observation evaluated and what    *)
(* the evaluation returned or raised.                                      *)
(***************************************************************************)
VARIABLES YEAR, args, built, self, obs, result, repeated, env, ret, calls,
          ha, bridge, simulator

\* repeated: the last step evaluated again the observation evaluated before
rewardVars == <<YEAR, args, built, self, obs, result, repeated>>

\* env: the PyEnvProduction built; ret: what its last reset or step gave
\* calls: the calls made on env so far, as the caller counts them
envVars == <<env, ret, calls>>

\* The flag protocol between a HomeAssistantBridge with flag_entity and the
\* simulator.  ha: the flag and the round of simulation the sensor entities
\* show; bridge: where reset or step stands, current_timestep, the round
\* the sensors showed when the actuators were written and when they were
\* read, whether the flag was raised since the write; simulator: where the
\* simulator stands.
syncVars == <<ha, bridge, simulator>>

vars == <<rewardVars, envVars, syncVars>>

Init ==
    /\ YEAR \in Years
    /\ args = Unset
    /\ built = "not called"
    /\ self = Unset
    /\ obs = Unset
    /\ result = Unset
    /\ repeated = FALSE
    /\ env = Unset
    /\ ret = Unset
    /\ calls = [resets |-> 0, steps |-> 0, steps_since_reset |-> 0,
                raised |-> FALSE]
    /\ ha = [flag |-> "off", sensors |-> 0]
    /\ bridge = [NewHomeAssistantBridge(TRUE, TRUE) EXCEPT
                    !.op = "reset", !.pc = "wait_for_flag_on"]
    /\ simulator = "publishing"

\* reward_fn = cls(**a)
Construct(a) ==
    /\ built = "not called"
    /\ \E r \in {Instantiate(a)} :
           /\ args' = Some(a)
           /\ built' = r.raised
           /\ self' = IF r.raised = "none" THEN Some(r.obj) ELSE Unset
    /\ UNCHANGED <<YEAR, obs, result, repeated, envVars, syncVars>>

\* reward, reward_terms = reward_fn(obs_dict)
Call(obs_dict) ==
    /\ self # Unset
    /\ self[1].cls \in NuestroClasses
    /\ \E r \in {Evaluate(self[1], obs_dict, YEAR)} :
           /\ self' = Some(r.self)
           /\ obs' = Some(obs_dict)
           /\ result' = Some([f \in DOMAIN r \ {"self"} |-> r[f]])
    /\ repeated' = FALSE
    /\ UNCHANGED <<YEAR, args, built, envVars, syncVars>>

\* reward_fn(obs_dict) once more, on the observation of the last call
CallAgain ==
    /\ self # Unset
    /\ obs # Unset
    /\ \E r \in {Evaluate(self[1], obs[1], YEAR)} :
           /\ self' = Some(r.self)
           /\ result' = Some([f \in DOMAIN r \ {"self"} |-> r[f]])
    /\ repeated' = TRUE
    /\ UNCHANGED <<YEAR, args, built, obs, envVars, syncVars>>

\* the readings swept on engines of every weight, scaling and zone list
Next ==
    \/ \E a \in RewardArgs : Construct(a)
    \/ \E obs_dict \in ReadingsSweep : Call(obs_dict)

Spec == Init /\ [][Next]_vars

\* the calendar swept on engines of every tariff and schedule
NextCalendar ==
    \/ \E a \in CalendarArgs : Construct(a)
    \/ \E obs_dict \in CalendarSweep : Call(obs_dict)

SpecCalendar == Init /\ [][NextCalendar]_vars

\* NuestroRewardMultizonaPPO with one zone and with two, with and without
\* a tariff file
BonusArgs ==
    {[BaseArgs("NuestroRewardMultizonaPPO") EXCEPT
         !.temperature_variables = z[1], !.humidity_variables = z[2],
         !.tarifa_json = j] :
        z \in {<< <<east_temp>>, <<east_rh>> >>,
               << <<east_temp, west_temp>>, <<east_rh, west_rh>> >>},
        j \in {<<>>, <<TarifaWeekend>>}}

\* a weekday and a weekend date, hours around the peak window, each zone in
\* and out of the comfort band, the heat pump off and on
BonusSweep ==
    {Obs(1, d, h, e[1], e[2], w[1], w[2], DInt(500 * p), DInt(250)) :
        d \in {15, 20}, h \in {16, 17, 20, 21},
        e \in {<<DInt(25), DInt(50)>>, <<DInt(28), DInt(46)>>},
        w \in {<<DInt(25), DInt(50)>>, <<DInt(30), DInt(50)>>},
        p \in 0..PowerLevels}

NextBonus ==
    \/ \E a \in BonusArgs : Construct(a)
    \/ \E obs_dict \in BonusSweep : Call(obs_dict)

SpecBonus == Init /\ [][NextBonus]_vars

\* NuestroRewardMultizona with every zone list and weight
RepeatArgs ==
    {[BaseArgs("NuestroRewardMultizona") EXCEPT
         !.temperature_variables = z[1], !.humidity_variables = z[2],
         !.energy_weight = w] :
        z \in ZoneLists, w \in ValidWeights}

\* evaluations in any order, and any of them made twice in a row
NextRepeat ==
    \/ \E a \in RepeatArgs : Construct(a)
    \/ \E obs_dict \in ReadingsSweep : Call(obs_dict)
    \/ CallAgain

SpecRepeat == Init /\ [][NextRepeat]_vars

\* an obs_dict that has no entry for key
Without(obs_dict, key) ==
    [name \in DOMAIN obs_dict \ {key} |-> obs_dict[name]]

\* observations with one entry missing, or (not_a_name) with none missing
MissingSweep ==
    {Without(Obs(1, d, 18, DInt(28), DInt(46), DInt(30), DInt(50),
                 DInt(500), DInt(250)), key) :
        d \in {15, 20},
        key \in {Str("month"), Str("day_of_month"), Str("hour"), east_temp,
                 east_rh, west_temp, west_rh, heat_pump_power, aux_power,
                 not_a_name}}

\* NuestroRewardMultizona with no zone, one zone, two zones, and one or two
\* energy variables
MissingArgs ==
    {[BaseArgs("NuestroRewardMultizona") EXCEPT
         !.temperature_variables = z[1], !.humidity_variables = z[2],
         !.energy_variables = e] :
        z \in {zl \in ZoneLists : Len(zl[1]) = Len(zl[2])},
        e \in {<<heat_pump_power>>, <<heat_pump_power, aux_power>>}}

NextMissing ==
    \/ \E a \in MissingArgs : Construct(a)
    \/ \E obs_dict \in MissingSweep : Call(obs_dict)

SpecMissing == Init /\ [][NextMissing]_vars

\* NuestroRewardMultizona with one zone and the default tariff, the weight
\* and the comfort scaling varied
ScenarioArgs ==
    {[BaseArgs("NuestroRewardMultizona") EXCEPT
         !.energy_weight = w, !.lambda_temperature = l] :
        w \in ValidWeights, l \in {DInt(1), DInt(30)}}

\* January, around the peak window, a cool and a neutral zone, the heat
\* pump off and at 2000 W
ScenarioSweep ==
    {Obs(1, d, h, t, DInt(45), DInt(30), DInt(50), hp, DInt(250)) :
        d \in {15, 20}, h \in {16, 18, 21}, t \in {DInt(22), DInt(25)},
        hp \in {DInt(0), DInt(2000)}}

NextScenario ==
    \/ \E a \in ScenarioArgs : Construct(a)
    \/ \E obs_dict \in ScenarioSweep : Call(obs_dict)

SpecScenario == Init /\ [][NextScenario]_vars

\* construction alone, of every class with every argument
NextConstruct == \E a \in ConstructArgs : Construct(a)

SpecConstruct == Init /\ [][NextConstruct]_vars

\* the caller's count after a call: counting stops for good at the first
\* call that raises
Counted(before, after, returned) ==
    IF before.raised \/ returned.raised # "none"
    THEN [resets |-> 0, steps |-> 0, steps_since_reset |-> 0, raised |-> TRUE]
    ELSE after

\* env = PyEnvProduction(**cfg)
NewEnv(cfg) ==
    /\ env = Unset
    /\ \E new \in {InitEnv(cfg, in) :
                       in \in EnvInputs(cfg @@ [energyplus_bridge |-> Unset,
                                                homeassistant_bridge |-> Unset],
                                        "init")} :
           env' = Some(new)
    /\ UNCHANGED <<rewardVars, ret, calls, syncVars>>

\* obs, info = env.reset()
Reset ==
    /\ env # Unset
    /\ env[1].episode_count < MaxEpisodeCount
    /\ \E in \in EnvInputs(env[1], "reset") :
           \E r \in {ResetEnv(env[1], in)} :
               /\ env' = Some(r.self)
               /\ ret' = Some(r.ret)
               /\ calls' = Counted(calls, [calls EXCEPT
                                               !.resets = @ + 1,
                                               !.steps_since_reset = 0],
                                    r.ret)
    /\ UNCHANGED <<rewardVars, syncVars>>

\* obs, reward, terminated, truncated, info = env.step(action)
Step ==
    /\ env # Unset
    /\ env[1].step_count < MaxStepCount
    /\ env[1].total_steps < MaxTotalSteps
    /\ \E in \in EnvInputs(env[1], "step") :
           \E r \in {StepEnv(env[1], in)} :
               /\ env' = Some(r.self)
               /\ ret' = Some(r.ret)
               /\ calls' = Counted(calls, [calls EXCEPT
                                               !.steps = @ + 1,
                                               !.steps_since_reset = @ + 1],
                                    r.ret)
    /\ UNCHANGED <<rewardVars, syncVars>>

NextEnv ==
    \/ \E cfg \in EnvConfigs : NewEnv(cfg)
    \/ Reset
    \/ Step

SpecEnv == Init /\ [][NextEnv]_vars

\* the steps of one bridge are counted up to MaxTimestep
MaxTimestep == 3

\* HomeAssistantBridge.step with flag_entity, first statement:
\* write_actuators(action, normalized=True); posted tells whether the POSTs
\* succeeded
WriteActuators(action, posted) ==
    /\ bridge.pc = "idle"
    /\ bridge.flag_entity
    /\ bridge.steps < MaxTimestep
    /\ bridge' = [bridge EXCEPT !.op = "step", !.pc = "set_flag_off",
                                !.success = posted, !.before = ha.sensors,
                                !.raised = FALSE, !.action = action,
                                !.sent = WriteActuatorsReal(bridge, action,
                                                            TRUE)]
    /\ UNCHANGED <<rewardVars, envVars, ha, simulator>>

\* set_flag_off(): the POST of turn_off; when it fails the exception is
\* turned into a warning and the flag stays as it was
SetFlagOff(posted) ==
    /\ bridge.pc = "set_flag_off"
    /\ bridge' = [bridge EXCEPT !.pc = "wait_for_flag_on"]
    /\ ha' = [ha EXCEPT !.flag = IF posted THEN "off" ELSE @]
    /\ UNCHANGED <<rewardVars, envVars, simulator>>

\* a wait that ends at the first answer with status 200, whatever the state
\* of the flag (WaitForFlagOnReturns tells it from WaitForFlagOn)
WaitForFlagOnAnswered(response) ==
    /\ bridge.pc = "wait_for_flag_on"
    /\ bridge' =
         IF ~bridge.flag_entity \/ response = "200"
         THEN [bridge EXCEPT
                 !.poll = IF bridge.flag_entity THEN response ELSE @,
                 !.pc = IF bridge.op = "wait_for_flag_on" THEN "idle"
                        ELSE "get_observation_from_sensors"]
         ELSE [bridge EXCEPT !.poll = response]
    /\ UNCHANGED <<rewardVars, envVars, ha, simulator>>

\* wait_for_flag_on(): it returns at once without flag_entity; otherwise
\* one GET of the flag: the loop ends when the answer is 200 with state
\* 'on', and sleeps and asks again otherwise
WaitForFlagOn(response) ==
    /\ bridge.pc = "wait_for_flag_on"
    /\ bridge' =
         IF ~bridge.flag_entity \/ (response = "200" /\ ha.flag = "on")
         THEN [bridge EXCEPT
                 !.poll = IF bridge.flag_entity THEN response ELSE @,
                 !.pc = IF bridge.op = "wait_for_flag_on" THEN "idle"
                        ELSE "get_observation_from_sensors"]
         ELSE [bridge EXCEPT !.poll = response]
    /\ UNCHANGED <<rewardVars, envVars, ha, simulator>>

\* get_observation_from_sensors() with the forecast block and
\* info['timestep'] of current_timestep, and the end of step
\* (current_timestep += 1) or of reset (current_timestep = 0)
GetObservationFromSensors ==
    /\ bridge.pc = "get_observation_from_sensors"
    /\ bridge' = [bridge EXCEPT
                     !.pc = "idle", !.obs = Some(ha.sensors),
                     !.forecast = IF bridge.forecast_csv
                                  THEN Some(bridge.current_timestep)
                                  ELSE Unset,
                     !.info_timestep = Some(bridge.current_timestep),
                     !.current_timestep = IF bridge.op = "step" THEN @ + 1
                                          ELSE 0,
                     !.steps = IF bridge.op = "step" THEN @ + 1 ELSE @,
                     !.steps_since_reset = IF bridge.op = "step" THEN @ + 1
                                           ELSE 0]
    /\ UNCHANGED <<rewardVars, envVars, ha, simulator>>

\* the simulator finds the flag OFF and takes the actuators' values
SimulatorTakesAction ==
    /\ simulator = "waiting"
    /\ ha.flag = "off"
    /\ simulator' = "simulating"
    /\ UNCHANGED <<rewardVars, envVars, ha, bridge>>

\* the simulator writes the sensors of the round it simulated
SimulatorWritesSensors ==
    /\ simulator = "simulating"
    /\ simulator' = "publishing"
    /\ ha' = [ha EXCEPT !.sensors = @ + 1]
    /\ UNCHANGED <<rewardVars, envVars, bridge>>

\* the simulator raises the flag: the sensors are written
SimulatorRaisesFlag ==
    /\ simulator = "publishing"
    /\ simulator' = "waiting"
    /\ ha' = [ha EXCEPT !.flag = "on"]
    /\ bridge' = [bridge EXCEPT !.raised = TRUE]
    /\ UNCHANGED <<rewardVars, envVars>>

NextSync ==
    \/ \E action \in Actions, posted \in BOOLEAN :
           WriteActuators(action, posted)
    \/ \E posted \in BOOLEAN : SetFlagOff(posted)
    \/ \E response \in FlagResponses : WaitForFlagOn(response)
    \/ GetObservationFromSensors
    \/ SimulatorTakesAction
    \/ SimulatorWritesSensors
    \/ SimulatorRaisesFlag

SpecSync == Init /\ [][NextSync]_vars

\* bridge = HomeAssistantBridge(...), in place of the bridge there is at
\* the start
Connect(flag_entity, forecast_csv) ==
    /\ bridge = [NewHomeAssistantBridge(TRUE, TRUE) EXCEPT
                    !.op = "reset", !.pc = "wait_for_flag_on"]
    /\ bridge' = NewHomeAssistantBridge(flag_entity, forecast_csv)
    /\ UNCHANGED <<rewardVars, envVars, ha, simulator>>

\* HomeAssistantBridge.reset: with flag_entity the wait for the flag comes
\* first; without it the sensors are read at once, the forecast block is
\* the one of current_timestep, then current_timestep = 0 and
\* info['timestep'] is 0.  It is called on a new bridge and after steps.
BridgeReset ==
    /\ bridge.pc = "idle"
    /\ bridge.op = "init" \/ bridge.steps_since_reset > 0
    /\ bridge' =
         IF bridge.flag_entity
         THEN [bridge EXCEPT !.op = "reset", !.pc = "wait_for_flag_on"]
         ELSE [bridge EXCEPT
                 !.op = "reset", !.obs = Some(ha.sensors),
                 !.forecast = IF bridge.forecast_csv
                              THEN Some(bridge.current_timestep)
                              ELSE Unset,
                 !.current_timestep = 0, !.info_timestep = Some(0),
                 !.steps_since_reset = 0]
    /\ UNCHANGED <<rewardVars, envVars, ha, simulator>>

\* HomeAssistantBridge.step without flag_entity: the action is
\* desnormalized when it looks normalized and sent as it is otherwise, the
\* sensors are read, the forecast block is the one of current_timestep,
\* then current_timestep += 1 and info['timestep'] is the new value
StepWithoutFlag(action, posted) ==
    /\ bridge.pc = "idle"
    /\ ~bridge.flag_entity
    /\ bridge.steps < MaxTimestep
    /\ bridge' = [bridge EXCEPT
                     !.op = "step", !.success = posted,
                     !.before = ha.sensors, !.action = action,
                     !.sent = StepActionReal(bridge, action),
                     !.obs = Some(ha.sensors),
                     !.forecast = IF bridge.forecast_csv
                                  THEN Some(bridge.current_timestep)
                                  ELSE Unset,
                     !.current_timestep = @ + 1,
                     !.info_timestep = Some(bridge.current_timestep + 1),
                     !.steps = @ + 1, !.steps_since_reset = @ + 1]
    /\ UNCHANGED <<rewardVars, envVars, ha, simulator>>

\* bridge.wait_for_flag_on() called on its own
CallWaitForFlagOn ==
    /\ bridge.pc = "idle"
    /\ bridge' = [bridge EXCEPT !.op = "wait_for_flag_on",
                                !.pc = "wait_for_flag_on"]
    /\ UNCHANGED <<rewardVars, envVars, ha, simulator>>

NextBridge ==
    \/ NextSync
    \/ \E flag_entity \in BOOLEAN, forecast_csv \in BOOLEAN :
           Connect(flag_entity, forecast_csv)
    \/ BridgeReset
    \/ \E action \in Actions, posted \in BOOLEAN :
           StepWithoutFlag(action, posted)

SpecBridge == Init /\ [][NextBridge]_vars

NextWait ==
    \/ NextSync
    \/ \E flag_entity \in BOOLEAN, forecast_csv \in BOOLEAN :
           Connect(flag_entity, forecast_csv)
    \/ CallWaitForFlagOn

\* the GET of the flag is answered in the end
SpecWait == Init /\ [][NextWait]_vars /\ WF_vars(WaitForFlagOn("200"))

(***************************************************************************)
(* Properties.  They read the state: the constructor call (args, built),   *)
(* the object (self), the observation last evaluated (obs) and what the    *)
(* evaluation returned (result).                                           *)
(***************************************************************************)
\* the last evaluation returned a reward
Returned == result # Unset /\ result[1].raised = "none"

\* the object is of class cls
IsCls(cls) == self # Unset /\ self[1].cls = cls

Terms == result[1].reward_terms

\* the weekday and the hour of the observation's clamped date
StepWeekday ==
    Weekday(YEAR, Clamp(1, 12, obs[1][Str("month")]),
            Clamp(1, 28, obs[1][Str("day_of_month")]))

StepHour == Clamp(0, 23, obs[1][Str("hour")])

InPeakWindow ==
    /\ \E i \in 1..Len(self[1].dias_punta) : self[1].dias_punta[i] = StepWeekday
    /\ self[1].punta_inicio <= StepHour
    /\ StepHour <= self[1].punta_fin

\* the observation is of the given day of January and hour
JanuaryAt(day, hour) ==
    /\ obs[1][Str("month")] = 1
    /\ obs[1][Str("day_of_month")] = day
    /\ obs[1][Str("hour")] = hour

\* C1: NuestroRewardMultizona.__call__ prices the step at the peak price if
\* and only if the weekday of the clamped date is in dias_punta and
\* punta_inicio <= hour <= punta_fin, and at the off-peak price otherwise;
\* with no tarifa_json the window is [17,20] on Monday..Friday, so Monday
\* 15 January 2024 at 18 is peak, and Saturday 20 January 2024 at 18 and
\* that Monday at 16 are off-peak.
TariffSelection ==
    (IsCls("NuestroRewardMultizona") /\ Returned) =>
        /\ InPeakWindow <=> DEq(Terms.price_kwh, self[1].precio_punta)
        /\ ~InPeakWindow => DEq(Terms.price_kwh, self[1].precio_fuera_punta)
        /\ args[1].tarifa_json = <<>> =>
              /\ self[1].punta_inicio = 17 /\ self[1].punta_fin = 20
              /\ self[1].dias_punta = <<0, 1, 2, 3, 4>>
              /\ DEq(self[1].precio_punta, args[1].high_price)
              /\ DEq(self[1].precio_fuera_punta, args[1].low_price)
              /\ (YEAR = 2024 /\ JanuaryAt(15, 18)) =>
                    DEq(Terms.price_kwh, args[1].high_price)
              /\ (YEAR = 2024 /\ (JanuaryAt(20, 18) \/ JanuaryAt(15, 16))) =>
                    DEq(Terms.price_kwh, args[1].low_price)

\* a Monday at 18 priced at the peak price of the default tariff
TariffSelectionReached ==
    /\ IsCls("NuestroRewardMultizona") /\ Returned
    /\ args[1].tarifa_json = <<>>
    /\ YEAR = 2024 /\ JanuaryAt(15, 18)
    /\ InPeakWindow
    /\ DEq(Terms.price_kwh, DInt(10))

BreakdownFields ==
    {"energy_term", "comfort_term", "energy_penalty", "comfort_penalty",
     "total_power_demand", "total_temperature_violation", "reward_weight",
     "avg_pmv", "price_kwh"}

\* C2: the breakdown NuestroRewardMultizona.__call__ returns has exactly the
\* nine fields, its total_power_demand is the sum of the readings of the
\* configured energy variables, and its energy_penalty is
\* -(total_power_demand / 1000) * price_kwh.
EnergyBreakdown ==
    (IsCls("NuestroRewardMultizona") /\ Returned) =>
        /\ DOMAIN Terms = BreakdownFields
        /\ DEq(Terms.total_power_demand,
               DSum([i \in 1..Len(args[1].energy_variables) |->
                        obs[1][args[1].energy_variables[i]]]))
        /\ DEq(DMul(Terms.energy_penalty, DInt(1000)),
               DNeg(DMul(Terms.total_power_demand, Terms.price_kwh)))

\* 500 W and 250 W at the peak price 10: 750 W, penalty -7.5
EnergyBreakdownReached ==
    /\ IsCls("NuestroRewardMultizona") /\ Returned
    /\ Len(args[1].energy_variables) = 2
    /\ StepWeekday < 5
    /\ DEq(Terms.total_power_demand, DInt(750))
    /\ DEq(Terms.price_kwh, DInt(10))
    /\ DEq(Terms.energy_penalty, D(-75, 1))

\* C3: the reward of NuestroRewardMultizona.__call__ is energy_term +
\* comfort_term, with energy_term = lambda_energy * W * energy_penalty and
\* comfort_term = lambda_temperature * (1 - W) * (-total violation); with
\* W = 1 it is lambda_energy * energy_penalty whatever the zones read, with
\* W = 0 it is -lambda_temperature * total violation whatever the energy
\* and the price.
WeightedCombination ==
    (IsCls("NuestroRewardMultizona") /\ Returned) =>
        /\ DEq(result[1].reward, DAdd(Terms.energy_term, Terms.comfort_term))
        /\ DEq(Terms.reward_weight, args[1].energy_weight)
        /\ DEq(Terms.energy_term,
               DMul(DMul(args[1].lambda_energy, args[1].energy_weight),
                    Terms.energy_penalty))
        /\ DEq(Terms.comfort_term,
               DMul(DMul(args[1].lambda_temperature,
                         DSub(DInt(1), args[1].energy_weight)),
                    DNeg(Terms.total_temperature_violation)))
        /\ DEq(Terms.total_temperature_violation,
               DSum(result[1].temp_violations))
        /\ DEq(args[1].energy_weight, DInt(1)) =>
              DEq(result[1].reward,
                  DMul(args[1].lambda_energy, Terms.energy_penalty))
        /\ DEq(args[1].energy_weight, DInt(0)) =>
              DEq(result[1].reward,
                  DNeg(DMul(args[1].lambda_temperature,
                            Terms.total_temperature_violation)))

\* W = 0.5 with energy drawn and a zone out of comfort: both terms count
WeightedCombinationReached ==
    /\ IsCls("NuestroRewardMultizona") /\ Returned
    /\ DEq(args[1].energy_weight, D(5, 1))
    /\ DLt(Terms.energy_term, DZero)
    /\ DLt(Terms.comfort_term, DZero)
    /\ DLt(result[1].reward, Terms.energy_term)
    /\ DLt(result[1].reward, Terms.comfort_term)

\* the temperature and the humidity reading of zone i of the evaluation:
\* NuestroReward reads both through temperature_variables
ZoneTemp(i) == obs[1][args[1].temperature_variables[i]]

ZoneHum(i) ==
    IF IsCls("NuestroReward") THEN obs[1][args[1].temperature_variables[2]]
    ELSE obs[1][args[1].humidity_variables[i]]

Zones == 1..Len(result[1].pmv_values)

\* -7.4928 + 0.2882*T - 0.0020*RH + 0.0004*T*RH, term by term
PmvFormula(T, RH) ==
    DAdd(DAdd(DAdd(D(-74928, 4), DMul(D(2882, 4), T)),
              DNeg(DMul(D(20, 4), RH))),
         DMul(D(4, 4), DMul(T, RH)))

\* every zone's PMV is the regression of its two readings, in the three
\* classes alike
PmvIsRegression ==
    \A i \in Zones : DEq(result[1].pmv_values[i],
                         PmvFormula(ZoneTemp(i), ZoneHum(i)))

\* the PMV of every zone that reads 25 degrees and 50 % is pmv
PmvAt25And50Is(pmv) ==
    \A i \in Zones :
        (DEq(ZoneTemp(i), DInt(25)) /\ DEq(ZoneHum(i), DInt(50))) =>
            DEq(result[1].pmv_values[i], pmv)

\* C4: NuestroReward, NuestroRewardMultizona and NuestroRewardMultizonaPPO
\* compute PMV = -7.4928 + 0.2882*T - 0.0020*RH + 0.0004*T*RH of every
\* zone's readings, so the same (T, RH) gives the same PMV in the three;
\* PMV(25, 50) = 0.1122.
PmvFormulaExact ==
    Returned => (PmvIsRegression /\ PmvAt25And50Is(D(1122, 4)))

\* C4 as stated: the same, with PMV(25, 50) = -0.1028.
PmvFormulaAsStated ==
    Returned => (PmvIsRegression /\ PmvAt25And50Is(D(-1028, 4)))

\* NuestroRewardMultizonaPPO evaluated on a zone at 25 degrees and 50 %
PmvFormulaReached ==
    /\ IsCls("NuestroRewardMultizonaPPO") /\ Returned
    /\ 1 \in Zones
    /\ DEq(ZoneTemp(1), DInt(25)) /\ DEq(ZoneHum(1), DInt(50))
    /\ DEq(result[1].pmv_values[1], D(1122, 4))

\* the zone's deviation from the comfort band, by cases
Deviation(pmv) ==
    IF DLt(pmv, D(-5, 1)) THEN DSub(D(-5, 1), pmv)
    ELSE IF DLt(D(5, 1), pmv) THEN DSub(pmv, D(5, 1))
    ELSE DZero

InComfortBand(pmv) == DLe(D(-5, 1), pmv) /\ DLe(pmv, D(5, 1))

\* the energy the step draws: the sum of the configured energy readings
StepEnergy ==
    DSum([i \in 1..Len(args[1].energy_variables) |->
             obs[1][args[1].energy_variables[i]]])

EnergyGatedHotSide ==
    (IsCls("NuestroRewardMultizona") /\ Returned) =>
        \A i \in Zones :
            /\ (DLt(D(5, 1), result[1].pmv_values[i])
                   /\ DEq(Terms.total_power_demand, DZero)) =>
                  DEq(result[1].temp_violations[i], DZero)
            /\ (DEq(result[1].pmv_values[i], DInt(1))
                   /\ DLt(DZero, Terms.total_power_demand)) =>
                  DEq(result[1].temp_violations[i], D(75, 2))
            /\ DLt(result[1].pmv_values[i], D(-5, 1)) =>
                  DLt(DZero, result[1].temp_violations[i])

\* a zone at PMV = 1.0 charged 0.75 in a step that draws no energy
EnergyGatedHotSideMissed ==
    /\ IsCls("NuestroRewardMultizona") /\ Returned
    /\ 1 \in Zones
    /\ DEq(Terms.total_power_demand, DZero)
    /\ DEq(result[1].pmv_values[1], DInt(1))
    /\ DEq(result[1].temp_violations[1], D(75, 2))

\* the constructor has been called
Constructing == args # Unset

\* it is the constructor of one of the multi-zone engines
MultiZoneEngine ==
    args[1].cls \in {"NuestroRewardMultizona", "NuestroRewardMultizonaPPO"}

\* the call raised: there is no object to evaluate
ConstructionFailed == built # "none" /\ self = Unset

\* C7: constructing any class that takes an energy weight (LinearReward and
\* its subclasses, NuestroReward, NuestroRewardMultizona,
\* NuestroRewardMultizonaPPO, MultiZoneReward) with energy_weight outside
\* [0, 1] fails at construction.
WeightBoundsEnforced ==
    (Constructing
        /\ (DLt(args[1].energy_weight, DInt(0))
               \/ DLt(DInt(1), args[1].energy_weight))) =>
        ConstructionFailed

\* C8: constructing a multi-zone engine whose temperature_variables and
\* humidity_variables differ in length fails at construction, so that no
\* evaluation leaves a configured zone out of the comfort term.
ZoneListLengthsEnforced ==
    (Constructing /\ MultiZoneEngine) =>
        /\ Len(args[1].temperature_variables)
              # Len(args[1].humidity_variables) => ConstructionFailed
        /\ Returned =>
              /\ Len(result[1].temp_violations)
                    = Len(args[1].temperature_variables)
              /\ Len(result[1].temp_violations)
                    = Len(args[1].humidity_variables)

\* C9: constructing a multi-zone engine fails at construction whenever an
\* entry of temperature_variables, humidity_variables or energy_variables
\* is not a string.
NamesAreStringsEnforced ==
    (/\ Constructing
     /\ MultiZoneEngine
     /\ \E names \in {args[1].temperature_variables,
                      args[1].humidity_variables,
                      args[1].energy_variables} :
            \E i \in 1..Len(names) : names[i][1] # "str") =>
        ConstructionFailed

\* the observation's month, day or hour is out of calendar range
OutOfCalendarRange ==
    \/ obs[1][Str("month")] \notin 1..12
    \/ obs[1][Str("day_of_month")] \notin 1..28
    \/ obs[1][Str("hour")] \notin 0..23

\* C10: NuestroReward, NuestroRewardMultizona and NuestroRewardMultizonaPPO,
\* with or without an occupancy schedule, never raise on an observation
\* whose month, day_of_month or hour is out of calendar range: a reward is
\* returned.
OutOfRangeCalendarClamped ==
    (result # Unset /\ OutOfCalendarRange) => Returned

\* an engine with a schedule raising ValueError on month 13
OutOfRangeCalendarRaised ==
    /\ result # Unset
    /\ args[1].schedule_csv # <<>>
    /\ obs[1][Str("month")] = 13
    /\ obs[1][Str("day_of_month")] = 15
    /\ result[1].raised = "ValueError"

\* C11: whatever NuestroRewardMultizona evaluated before, evaluating the
\* observation of the last call once more returns the identical reward and
\* the identical breakdown: nothing a call stores on the engine reaches a
\* later call.
EvaluationIdempotent ==
    [][(IsCls("NuestroRewardMultizona") /\ obs # Unset /\ obs' = obs) =>
          result' = result]_vars

\* an observation evaluated twice in a row with energy drawn and a zone out
\* of comfort, the engine carrying the values the first call stored
EvaluationIdempotentReached ==
    /\ IsCls("NuestroRewardMultizona") /\ Returned
    /\ repeated
    /\ self[1].total_energy # Unset
    /\ DLt(DZero, Terms.total_power_demand)
    /\ DLt(DZero, Terms.total_temperature_violation)

\* the occupancy multiplier of the step just evaluated is 0
StepUnoccupied ==
    \E r \in {ScheduleRows(self[1].schedule[1], obs[1], YEAR)} :
        r # <<>> /\ r[1].my_factor = 0

\* C12: with a schedule_csv, NuestroReward and NuestroRewardMultizonaPPO
\* weigh energy with 1 only on a step whose occupancy multiplier is 0; on
\* every step with a nonzero multiplier or no matching row, the steps after
\* an unoccupied one included, they report the configured energy_weight as
\* reward_weight.
ScheduleOverrideOneStep ==
    (/\ Returned
     /\ self[1].cls \in {"NuestroReward", "NuestroRewardMultizonaPPO"}
     /\ self[1].schedule # Unset) =>
        DEq(Terms.reward_weight,
            IF StepUnoccupied THEN DInt(1) ELSE args[1].energy_weight)

\* an occupied step evaluated after an unoccupied one: the weight is still 1
ScheduleOverrideSticks ==
    /\ Returned
    /\ self[1].cls \in {"NuestroReward", "NuestroRewardMultizonaPPO"}
    /\ self[1].schedule # Unset
    /\ ~StepUnoccupied
    /\ DEq(Terms.reward_weight, DInt(1))
    /\ ~DEq(args[1].energy_weight, DInt(1))

\* the names the engine was configured with: energy, temperature, humidity
ConfiguredNames ==
    {args[1].energy_variables[i] : i \in DOMAIN args[1].energy_variables}
    \cup {args[1].temperature_variables[i] :
             i \in DOMAIN args[1].temperature_variables}
    \cup {args[1].humidity_variables[i] :
             i \in DOMAIN args[1].humidity_variables}

\* the observation just evaluated lacks a calendar field or a configured name
StepLacksKey ==
    \E name \in {Str("month"), Str("day_of_month"), Str("hour")}
                   \cup ConfiguredNames :
        name \notin DOMAIN obs[1]

NoZonesEnergyAlone ==
    (/\ IsCls("NuestroRewardMultizona") /\ obs # Unset
     /\ args[1].temperature_variables = <<>>
     /\ args[1].humidity_variables = <<>>) =>
        /\ Returned
        /\ result[1].pmv_values = <<>>
        /\ DEq(Terms.avg_pmv, DZero)
        /\ DEq(Terms.total_temperature_violation, DZero)
        /\ DEq(Terms.comfort_term, DZero)
        /\ DEq(result[1].reward, Terms.energy_term)

\* an engine without zones evaluated while power is drawn
NoZonesEnergyAloneReached ==
    /\ IsCls("NuestroRewardMultizona") /\ Returned
    /\ args[1].temperature_variables = <<>>
    /\ args[1].humidity_variables = <<>>
    /\ DLt(result[1].reward, DZero)

\* the engine and the observation of the end-to-end scenario: one zone
\* (east_temp, east_rh), heat_pump_power, peak 10, off-peak 4, window
\* [17, 20] on Monday to Friday, W = 0.5, lambda_energy = 1,
\* lambda_temperature = 30; January 15 at 18 h, 22 degrees, 45 %, 2000 W
InScenario ==
    /\ IsCls("NuestroRewardMultizona") /\ obs # Unset
    /\ args[1].temperature_variables = <<east_temp>>
    /\ args[1].humidity_variables = <<east_rh>>
    /\ args[1].energy_variables = <<heat_pump_power>>
    /\ args[1].tarifa_json = <<>>
    /\ DEq(args[1].high_price, DInt(10)) /\ DEq(args[1].low_price, DInt(4))
    /\ DEq(args[1].energy_weight, D(5, 1))
    /\ DEq(args[1].lambda_energy, DInt(1))
    /\ DEq(args[1].lambda_temperature, DInt(30))
    /\ obs[1][Str("month")] = 1 /\ obs[1][Str("day_of_month")] = 15
    /\ obs[1][Str("hour")] = 18
    /\ DEq(obs[1][east_temp], DInt(22)) /\ DEq(obs[1][east_rh], DInt(45))
    /\ DEq(obs[1][heat_pump_power], DInt(2000))

\* |x - y| <= tol
Within(x, y, tol) == DLe(DSub(x, y), tol) /\ DLe(DSub(y, x), tol)

\* C15: in the end-to-end scenario, January 15 being a peak weekday,
\* price_kwh is 10, energy_penalty -20, energy_term -10, the violation is
\* d + d*d with d = -0.5 - PMV(22, 45), and the reward is approximately
\* -17.005: it is -16.9958944, within 0.01 of that figure.
ScenarioFigures ==
    InScenario =>
        /\ Returned
        /\ StepWeekday \in 0..4
        /\ DEq(Terms.price_kwh, DInt(10))
        /\ DEq(Terms.energy_penalty, DInt(-20))
        /\ DEq(Terms.energy_term, DInt(-10))
        /\ \E d \in {DSub(D(-5, 1), PmvFormula(DInt(22), DInt(45)))} :
              /\ DLt(DZero, d)
              /\ DEq(result[1].temp_violations[1], DAdd(d, DMul(d, d)))
        /\ DEq(result[1].reward, D(-169958944, 7))
        /\ Within(result[1].reward, D(-17005, 3), D(1, 2))

\* the scenario evaluated: the zone is cold, PMV(22, 45) = -0.8464
ScenarioFiguresReached ==
    /\ InScenario /\ Returned
    /\ DEq(result[1].pmv_values[1], D(-8464, 4))
    /\ DLt(result[1].reward, DInt(-16))

(***************************************************************************)
(* The production environment.                                             *)
(***************************************************************************)
\* reset or step has returned
EnvReturned == ret # Unset /\ ret[1].raised = "none"

\* the last call went through the Home Assistant bridge
ThroughBridge ==
    /\ env[1].data_mode = "homeassistant"
    /\ env[1].homeassistant_bridge # Unset

\* the last call took the plain path, in a mode the plain path knows
OnPlainPath ==
    /\ env[1].data_mode \in {"terminal", "simulated", "api"}
    /\ ret[1].op \in {"reset", "plain"}

TimeCount == Len(env[1].time_variables)

VariableCount == Len(env[1].variable_names)

MeterCount == Len(env[1].meter_names)

\* the value a time field has in the observation: the environment's clock
\* on the plain path, the wall clock (month, day and hour only) through the
\* bridge, 0 for a field that is not known
TimeFieldValue(tv) ==
    IF ThroughBridge
    THEN CASE tv = Str("month") -> ret[1].in.now.month
           [] tv = Str("day_of_month") -> ret[1].in.now.day
           [] tv = Str("hour") -> ret[1].in.now.hour
           [] OTHER -> 0
    ELSE CASE tv = Str("month") -> env[1].month
           [] tv = Str("day_of_month") -> env[1].day
           [] tv = Str("hour") -> env[1].hour
           [] tv = Str("minute") -> env[1].minute
           [] tv = Str("year") -> env[1].year
           [] OTHER -> 0

\* the read of sensor name failed: a connection error, a timeout, a status
\* other than 200, the state 'unknown' or 'unavailable'
ReadFailed(name) ==
    \E r \in {ret[1].in.responses[name]} :
        \/ r.raised \in {"ConnectionError", "Timeout"}
        \/ r.raised = "none" /\ r.status_code # 200
        \/ r.raised = "none" /\ r.status_code = 200
             /\ r.state.text \in {"unknown", "unavailable"}

\* the number the sensor called name answered with, 0 when it has no entity
SensorReading(name) ==
    IF name \notin Keys(env[1].homeassistant_bridge[1].sensor_entities)
    THEN 0
    ELSE IF ReadFailed(name) THEN 0
    ELSE ret[1].in.responses[name].state.numbers[1]

\* the operator typed as many numbers as there are variables
TypedInFull ==
    /\ ret[1].in.user_input.values # Unset
    /\ Len(ret[1].in.user_input.values[1]) = VariableCount

\* the API answered with JSON
ApiAnswered ==
    /\ env[1].api_config.observation_endpoint # Unset
    /\ ret[1].in.response.raised = "none"

\* the value of variable i on the plain path: what was typed, what the API
\* answered under the variable's name, and the simulated value when the
\* terminal input or the API request failed
PlainReading(i) ==
    CASE env[1].data_mode = "terminal" /\ TypedInFull ->
            {ret[1].in.user_input.values[1][i]}
      [] env[1].data_mode = "api" /\ ApiAnswered ->
            IF env[1].variable_names[i] \in DOMAIN ret[1].in.response.data
            THEN {ret[1].in.response.data[env[1].variable_names[i]]}
            ELSE Int
      [] OTHER -> {ret[1].in.simulated[i]}

\* C16: every observation that reset and step return in the terminal,
\* simulated and api modes, and through the Home Assistant bridge without a
\* forecast, has len(time_variables) + len(variable_names) +
\* len(meter_names) elements: the time fields, then the variables, then the
\* meters; also when a sensor read, the terminal input or the API request
\* failed.
ObservationLayout ==
    (/\ EnvReturned
     /\ \/ OnPlainPath
        \/ ThroughBridge /\ env[1].ha_config.forecast_vec = <<>>) =>
        /\ Len(ret[1].obs) = TimeCount + VariableCount + MeterCount
        /\ \A k \in 1..TimeCount :
              ret[1].obs[k] = TimeFieldValue(env[1].time_variables[k])
        /\ \A i \in 1..VariableCount :
              IF ThroughBridge
              THEN ret[1].obs[TimeCount + i]
                       = SensorReading(env[1].variable_names[i])
              ELSE ret[1].obs[TimeCount + i] \in PlainReading(i)
        /\ \A j \in 1..MeterCount :
              ret[1].obs[TimeCount + VariableCount + j]
                  = IF ThroughBridge
                    THEN SensorReading(env[1].meter_names[j]) ELSE 0

\* a step on the plain path after a terminal input that is not a number, in
\* an environment with time fields, a variable and a meter
ObservationLayoutReached ==
    /\ EnvReturned /\ OnPlainPath /\ ret[1].op = "plain"
    /\ env[1].data_mode = "terminal"
    /\ ret[1].in.user_input.text = "abc"
    /\ TimeCount = 3 /\ VariableCount = 1 /\ MeterCount = 1
    /\ Len(ret[1].obs) = 5

\* the ordered declaration: time_variables + variable_names + meter_names
DeclaredNames ==
    env[1].time_variables \o env[1].variable_names \o env[1].meter_names

\* step has returned, on whichever of its three paths
StepReturned ==
    EnvReturned /\ ret[1].op \in {"plain", "energyplus", "homeassistant"}

\* C17: on the plain path, through the EnergyPlus bridge and through the
\* Home Assistant bridge, the obs_dict handed to the reward function binds
\* the k-th name of time_variables + variable_names + meter_names to
\* element k of the observation the step returns, provided the names are
\* pairwise distinct.
NamesBoundByPosition ==
    (/\ StepReturned
     /\ \A j, k \in DOMAIN DeclaredNames :
           DeclaredNames[j] = DeclaredNames[k] => j = k) =>
        /\ DOMAIN ret[1].obs_dict = Keys(DeclaredNames)
        /\ \A k \in DOMAIN DeclaredNames :
              ret[1].obs_dict[DeclaredNames[k]] = ret[1].obs[k]

\* a step through the EnergyPlus bridge with five distinct names: the
\* reward reads the meter at the fifth element
NamesBoundByPositionReached ==
    /\ StepReturned /\ ret[1].op = "energyplus"
    /\ DeclaredNames = <<Str("month"), Str("day_of_month"), Str("hour"),
                         east_temp, heat_pump_power>>
    /\ ret[1].obs_dict[heat_pump_power] = ret[1].obs[5]
    /\ ret[1].obs[5] # ret[1].obs[4]

\* the positions of the observation that hold the sensor called name
PositionsOf(name) ==
    {TimeCount + i : i \in {i \in 1..VariableCount + MeterCount :
        (env[1].variable_names \o env[1].meter_names)[i] = name}}

\* C18: when HomeAssistantBridge.step, reset or
\* get_observation_from_sensors cannot read a sensor (connection error,
\* timeout, status other than 200, state 'unknown' or 'unavailable'), the
\* observation has 0.0 at that sensor's position, the other sensors keep the
\* values read, and the call returns the observation in full length
\* without raising.
FailedReadIsZero ==
    (ret # Unset /\ ThroughBridge) =>
        /\ ret[1].raised # "none" =>
              /\ ret[1].in.reward.raised # "none"
              /\ ret[1].raised = ret[1].in.reward.raised
        /\ EnvReturned =>
              /\ Len(ret[1].obs) = Len(DeclaredNames)
                     + Len(env[1].homeassistant_bridge[1].forecast_vec)
              /\ \A name \in
                       Keys(env[1].homeassistant_bridge[1].sensor_entities) :
                    \A k \in PositionsOf(name) :
                        ret[1].obs[k] =
                            IF ReadFailed(name) THEN 0
                            ELSE ret[1].in.responses[name].state.numbers[1]

\* get_observation_from_sensors, on a step of a flag-synchronised bridge:
\* the read of the variable timed out, the meter was read
FailedReadIsZeroReached ==
    /\ EnvReturned /\ ThroughBridge /\ ret[1].op = "homeassistant"
    /\ env[1].homeassistant_bridge[1].flag_entity
    /\ ret[1].in.responses[east_temp].raised = "Timeout"
    /\ ~ReadFailed(heat_pump_power)
    /\ ret[1].obs[4] = 0 /\ ret[1].obs[5] = 21

\* production_config.get('max_steps_per_episode', 288)
EpisodeLimit ==
    IF env[1].max_steps_per_episode = Unset THEN 288
    ELSE env[1].max_steps_per_episode[1]

\* C20: in every data mode, step returns truncated = True as soon as the
\* steps counted since the last reset reach max_steps_per_episode (288 when
\* it is not configured), and the plain path never sets terminated.
TruncatedAtEpisodeLimit ==
    StepReturned =>
        /\ env[1].step_count >= EpisodeLimit => ret[1].truncated
        /\ ret[1].op = "plain" => ~ret[1].terminated

\* the step through the Home Assistant bridge that reaches the limit is not
\* reported as truncated
TruncatedAtEpisodeLimitMissed ==
    /\ StepReturned /\ ret[1].op = "homeassistant"
    /\ env[1].step_count >= EpisodeLimit
    /\ ~ret[1].truncated

\* C19: with flag_entity, a step writes the actuators, sets the flag OFF,
\* waits until it sees the flag ON and reads the sensors; whatever the
\* interleaving with the simulator and whatever the HTTP requests answer,
\* the sensors of a step are read only after the simulator has raised the
\* flag following that step's write, so a step never returns the sensor
\* values that were there before its action.
SensorsReadAfterFlagRaised ==
    bridge.op = "step" =>
        /\ bridge.pc = "get_observation_from_sensors" => bridge.raised
        /\ bridge.pc = "idle" => bridge.obs # Some(bridge.before)

\* a step returned the sensors of the round before its write: the flag was
\* never raised for it
SensorsReadAfterFlagRaisedMissed ==
    /\ bridge.op = "step" /\ bridge.pc = "idle"
    /\ bridge.current_timestep = 2
    /\ ~bridge.raised
    /\ bridge.obs = Some(bridge.before)

\* C23: in mode 'homeassistant' with no bridge left by the constructor,
\* reset builds the bridge and resets it or falls back to the terminal
\* mode; it returns an observation in every case and never raises.
ResetAlwaysReturns ==
    (ret # Unset /\ ret[1].op = "reset") =>
        /\ ret[1].raised = "none"
        /\ env[1].data_mode = "homeassistant" =>
              env[1].homeassistant_bridge # Unset

\* reset in mode 'homeassistant' without a token: reset() is called on the
\* bridge that was never built
ResetRaisedWithoutToken ==
    /\ ret # Unset /\ ret[1].op = "reset"
    /\ env[1].data_mode = "homeassistant" /\ ~env[1].ha_config.token
    /\ env[1].homeassistant_bridge = Unset
    /\ ret[1].raised = "AttributeError"

\* C25: whatever the configuration, with forecast_csv set and after a fall
\* back to the terminal mode too, every observation reset and step return
\* has the length observation_space.shape[0] declared by the constructor.
ObservationFitsSpace ==
    EnvReturned => Len(ret[1].obs) = env[1].obs_size

\* forecast_csv is set, the bridge could not be built, reset fell back to
\* the terminal mode: the observation lacks the forecast block
ObservationShortOfSpace ==
    /\ EnvReturned /\ ret[1].op = "reset"
    /\ env[1].data_mode = "terminal"
    /\ env[1].ha_config.forecast_vec # <<>>
    /\ Len(ret[1].obs) = Len(DeclaredNames)
    /\ env[1].obs_size = Len(DeclaredNames) + Len(env[1].ha_config.forecast_vec)

\* C27: after resets and steps that all returned, on the three step paths,
\* step_count is the number of steps since the last reset, simulation_time
\* is 300 * step_count, total_steps is the number of steps since
\* construction, and episode_count is the number of resets.
CountersFollowCalls ==
    (env # Unset /\ ~calls.raised) =>
        /\ env[1].episode_count = calls.resets
        /\ env[1].total_steps = calls.steps
        /\ env[1].step_count = calls.steps_since_reset
        /\ env[1].simulation_time = 300 * env[1].step_count

\* steps before and after a reset, the last one through a bridge
CountersFollowCallsReached ==
    /\ EnvReturned /\ ThroughBridge /\ ~calls.raised
    /\ calls.resets = 1 /\ calls.steps = 2 /\ calls.steps_since_reset = 1
    /\ env[1].total_steps = 2 /\ env[1].simulation_time = 300

\* an action was written to the actuators, by either path of step
ActionSent == bridge.sent # <<>>

\* every component of the last action lies in [0, 1]
InUnitRange ==
    \A i \in DOMAIN bridge.action :
        DLe(DZero, bridge.action[i]) /\ DLe(bridge.action[i], DInt(1))

\* every component lies in [-1, 1] and one of them is negative
InSignedRange ==
    /\ \A i \in DOMAIN bridge.action :
          DLe(DInt(-1), bridge.action[i]) /\ DLe(bridge.action[i], DInt(1))
    /\ \E i \in DOMAIN bridge.action : DLt(bridge.action[i], DZero)

\* low + fraction * (high - low), for actuator i
Between(i, fraction) ==
    DAdd(bridge.action_space_low[i],
         DMul(fraction, DSub(bridge.action_space_high[i],
                             bridge.action_space_low[i])))

\* C21: desnormalize_action maps an action with every component in [0, 1]
\* from [0, 1] onto [low, high] (0 to low, 1 to high), and an action in
\* [-1, 1] with a negative component from [-1, 1] onto [low, high].
DesnormalizesByRange ==
    ActionSent =>
        /\ InUnitRange =>
              \A i \in DOMAIN bridge.sent :
                  DEq(bridge.sent[i], Between(i, bridge.action[i]))
        /\ InSignedRange =>
              \A i \in DOMAIN bridge.sent :
                  DEq(bridge.sent[i],
                      Between(i, DMul(DAdd(bridge.action[i], DInt(1)),
                                      D(5, 1))))

\* the action (0, 1) is sent as (22.5, 1): 0 is taken as the middle of
\* [-1, 1]
UnitRangeReadAsSigned ==
    /\ ActionSent
    /\ bridge.action = <<DZero, DInt(1)>>
    /\ DEq(bridge.sent[1], D(225, 1)) /\ DEq(bridge.sent[2], DInt(1))

\* C22: every value sent to actuator i lies within [action_space_low[i],
\* action_space_high[i]], whatever the action, on the flag path and on the
\* plain path of step.
SentWithinActionSpace ==
    ActionSent =>
        \A i \in DOMAIN bridge.sent :
            /\ DLe(bridge.action_space_low[i], bridge.sent[i])
            /\ DLe(bridge.sent[i], bridge.action_space_high[i])

\* the plain path sends 40 to an actuator whose range ends at 30
SentBeyondActionSpace ==
    /\ ActionSent /\ ~bridge.flag_entity
    /\ bridge.op = "step" /\ bridge.pc = "idle"
    /\ DEq(bridge.sent[1], DInt(40))
    /\ DLt(bridge.action_space_high[1], bridge.sent[1])

\* reset or step has returned
BridgeReturned(op) == bridge.op = op /\ bridge.pc = "idle"

\* C24: with forecast_csv, the forecast block of the observation reset
\* returns is the one of timestep 0, after steps of an earlier episode too;
\* after the reset current_timestep is 0 and the n-th step that follows
\* reports info['timestep'] = n.
ForecastRestartsAtReset ==
    /\ BridgeReturned("reset") =>
          /\ bridge.current_timestep = 0
          /\ bridge.forecast_csv => bridge.forecast = Some(0)
    /\ BridgeReturned("step") =>
          bridge.info_timestep = Some(bridge.steps_since_reset)

\* a reset after two steps returns the forecast block of timestep 2
ForecastStaleAtReset ==
    /\ BridgeReturned("reset")
    /\ bridge.forecast_csv
    /\ bridge.steps = 2
    /\ bridge.current_timestep = 0
    /\ bridge.forecast = Some(2)

\* C26: wait_for_flag_on returns only after a GET of the flag answered 200
\* with state 'on'; an exception or another status is followed by another
\* GET and never by a return; without flag_entity the first thing the call
\* does is to return; and once the flag is ON and stays ON, the call
\* returns in the end.
WaitForFlagOnReturns ==
    /\ [][(bridge.pc = "wait_for_flag_on" /\ bridge'.op # "init") =>
             IF bridge.flag_entity
             THEN bridge'.pc # "wait_for_flag_on" =>
                      bridge'.poll = "200" /\ ha.flag = "on"
             ELSE (bridge' # bridge /\ ha' = ha) =>
                      bridge'.pc = "idle"]_vars
    /\ (bridge.pc = "wait_for_flag_on" /\ ha.flag = "on")
           ~> (bridge.pc # "wait_for_flag_on")

\* a step waited through a failed GET while the flag was OFF and went on to
\* read the sensors once the flag was raised
WaitForFlagOnReturned ==
    /\ bridge.op = "step" /\ bridge.pc = "get_observation_from_sensors"
    /\ bridge.flag_entity /\ bridge.raised
    /\ bridge.poll = "200" /\ ha.flag = "on"

\* the zones of the evaluation whose PMV lies in [-0.5, 0.5]
ComfortableZones ==
    Cardinality({i \in Zones : InComfortBand(result[1].pmv_values[i])})

\* C28: NuestroRewardMultizonaPPO adds the flat penalty of -500 exactly when
\* the step is in the peak window and the total power is greater than 0,
\* and 0 otherwise; the reward is energy_term + comfort_term + comfort_bonus
\* + flat_peak_penalty of the breakdown; comfort_bonus is the larger bonus
\* (40) with two zones or more in [-0.5, 0.5], the smaller (8) with exactly
\* one, and 0 with none.
FlatPenaltyAndBonus ==
    (IsCls("NuestroRewardMultizonaPPO") /\ Returned) =>
        /\ DEq(Terms.flat_peak_penalty,
               IF InPeakWindow /\ DLt(DZero, StepEnergy) THEN DInt(-500)
               ELSE DZero)
        /\ DEq(result[1].reward,
               DAdd(DAdd(DAdd(Terms.energy_term, Terms.comfort_term),
                         Terms.comfort_bonus),
                    Terms.flat_peak_penalty))
        /\ DEq(Terms.comfort_bonus,
               IF ComfortableZones >= 2 THEN DInt(40)
               ELSE IF ComfortableZones = 1 THEN DInt(8)
               ELSE DZero)

\* two zones in comfort on Monday 15 January at 17 with the heat pump off:
\* the larger bonus and no flat penalty
FlatPenaltyAndBonusReached ==
    /\ IsCls("NuestroRewardMultizonaPPO") /\ Returned
    /\ JanuaryAt(15, 17) /\ InPeakWindow
    /\ DEq(StepEnergy, DZero)
    /\ ComfortableZones = 2
    /\ DEq(Terms.comfort_bonus, DInt(40))
    /\ DEq(Terms.flat_peak_penalty, DZero)

\* C29: NuestroReward._get_temperature_violation returns the distance of
\* the PMV of its first two variables from the band [-0.5, 0.5]: 0 inside
\* the band, -0.5 - PMV below it and PMV - 0.5 above it.
ViolationIsBandDistance ==
    (IsCls("NuestroReward") /\ Returned) =>
        /\ DEq(result[1].pmv_values[1], PmvFormula(ZoneTemp(1), ZoneHum(1)))
        /\ DEq(result[1].temp_violations[1],
               Deviation(result[1].pmv_values[1]))

\* at 25 degrees and 50 % the PMV is 0.1122, inside the band, and the
\* violation returned is 5
ViolationInsideBandIsFive ==
    /\ IsCls("NuestroReward") /\ Returned
    /\ DEq(result[1].pmv_values[1], D(1122, 4))
    /\ DEq(result[1].temp_violations[1], DInt(5))

=============================================================================
